---------------------------- MODULE Spec2Model ----------------------------
(***************************************************************************)
(* Knucklebones solver: boards, the game tree of Roll and Move nodes, the  *)
(* expectiminimax evaluator and the solver facade, as state machines.      *)
(*                                                                         *)
(* A board is <<column 0, column 1, column 2>>, each column <<row 0, row 1,*)
(* row 2>> (Board.columns: Vec<Vec<Square>>), a square being Empty or the  *)
(* value 1..6 of its die.  A move is <<row, column>>, both in 0..2.        *)
(* Evaluations (f32 in the source) are exact rationals [n, d] in lowest    *)
(* terms, with the two infinities the evaluator starts from.               *)
(***************************************************************************)
EXTENDS Integers, Sequences, FiniteSets, TLC

\* ------------------------------------------------------------------ bounds

\* Largest look-ahead (in placements) the heuristic modes are asked for.
MaxDepth == 1

\* Largest brute-force threshold Hybrid mode is asked for.
MaxBrute == 3

\* Deepest chain of nodes the tree builder is followed along before a line of
\* play is given up as never ending.
MaxTreeDepth == 8

\* Body(v) with v evaluated once: a local binding by value (a LET definition is
\* expanded at each of its uses, which repeats a recursive call).
Let(v, Body(_)) == CHOOSE y \in {Body(x) : x \in {v}} : TRUE

\* --------------------------------------------------------- Die, Square, Player

Empty == "Empty"

Die_all == <<"One", "Two", "Three", "Four", "Five", "Six">>

Dice == {Die_all[i] : i \in 1..Len(Die_all)}

to_value(die) ==
  CASE die = "One" -> 1
    [] die = "Two" -> 2
    [] die = "Three" -> 3
    [] die = "Four" -> 4
    [] die = "Five" -> 5
    [] die = "Six" -> 6

\* Die::new on a value 1..6.
Die_new(value) ==
  CASE value = 1 -> "One"
    [] value = 2 -> "Two"
    [] value = 3 -> "Three"
    [] value = 4 -> "Four"
    [] value = 5 -> "Five"
    [] value = 6 -> "Six"

Squares == {Empty} \cup Dice

Player1 == "Player1"

Player2 == "Player2"

Players == {Player1, Player2}

opponent(player) == IF player = Player1 THEN Player2 ELSE Player1

Move_new(row, column) == <<row, column>>

get_row(m) == m[1]

get_column(m) == m[2]

Move_all ==
  << Move_new(0, 0), Move_new(0, 1), Move_new(0, 2),
     Move_new(1, 0), Move_new(1, 1), Move_new(1, 2),
     Move_new(2, 0), Move_new(2, 1), Move_new(2, 2) >>

Moves == {Move_all[i] : i \in 1..Len(Move_all)}

\* ------------------------------------------------------------------- Board

Board_empty ==
  << <<Empty, Empty, Empty>>, <<Empty, Empty, Empty>>, <<Empty, Empty, Empty>> >>

\* The square at (row, col): self.columns[col][row].
Cell(board, row, col) == board[col + 1][row + 1]

get_elements(board) == board[1] \o board[2] \o board[3]

is_full(board) ==
  \A i \in 1..Len(get_elements(board)) : get_elements(board)[i] # Empty

\* A change of get_column_multiplicity: only neighbouring squares pair up.
get_column_multiplicity_adjacent(board, column_index) ==
  LET column == board[column_index + 1] IN
  IF column[1] # Empty /\ column[1] = column[2] /\ column[2] = column[3]
  THEN 3
  ELSE IF \/ (column[1] # Empty /\ column[1] = column[2])
          \/ (column[2] # Empty /\ column[2] = column[3])
       THEN 2
       ELSE 1

\* A change of get_column_multiplicity: the pair of the two lower squares is
\* left out.
get_column_multiplicity_top(board, column_index) ==
  LET column == board[column_index + 1] IN
  IF column[1] # Empty /\ column[1] = column[2] /\ column[2] = column[3]
  THEN 3
  ELSE IF \/ (column[1] # Empty /\ column[1] = column[2])
          \/ (column[1] # Empty /\ column[1] = column[3])
       THEN 2
       ELSE 1

get_column_multiplicity(board, column_index) ==
  LET column == board[column_index + 1] IN
  IF column[1] # Empty /\ column[1] = column[2] /\ column[2] = column[3]
  THEN 3
  ELSE IF \/ (column[1] # Empty /\ column[1] = column[2])
          \/ (column[2] # Empty /\ column[2] = column[3])
          \/ (column[1] # Empty /\ column[1] = column[3])
       THEN 2
       ELSE 1

\* The inner loop of Board.sum: the die values of one column, empty squares
\* adding nothing.
ColumnRawSum(column) ==
  LET v(sq) == IF sq = Empty THEN 0 ELSE to_value(sq) IN
  v(column[1]) + v(column[2]) + v(column[3])

sum(board) ==
    ColumnRawSum(board[1]) * get_column_multiplicity(board, 0)
  + ColumnRawSum(board[2]) * get_column_multiplicity(board, 1)
  + ColumnRawSum(board[3]) * get_column_multiplicity(board, 2)

is_set(board, row, col) == Cell(board, row, col) # Empty

\* A change of Board.make_move: the die is written whatever the square holds.
Board_with_move_made_overwrite(board, die, m) ==
  [ok |-> TRUE, err |-> "",
   board |-> [board EXCEPT ![get_column(m) + 1][get_row(m) + 1] = die]]

\* Board.make_move through Board.with_move_made: Ok(new board) or Err.
Board_with_move_made(board, die, m) ==
  IF is_set(board, get_row(m), get_column(m))
  THEN [ok |-> FALSE, err |-> "Square already set", board |-> board]
  ELSE [ok |-> TRUE, err |-> "",
        board |-> [board EXCEPT ![get_column(m) + 1][get_row(m) + 1] = die]]

\* A change of eliminate: only the first matching square is cleared.
eliminate_first_match(board, die, column_index) ==
  LET column == board[column_index + 1]
      first == IF column[1] = die THEN 1
               ELSE IF column[2] = die THEN 2
               ELSE IF column[3] = die THEN 3 ELSE 0
  IN [board EXCEPT ![column_index + 1] =
        << IF first = 1 THEN Empty ELSE column[1],
           IF first = 2 THEN Empty ELSE column[2],
           IF first = 3 THEN Empty ELSE column[3] >>]

\* One square of eliminate's loop: a square holding the die is cleared.
eliminate_square(square, die) == IF square = die THEN Empty ELSE square

\* A change of eliminate: the board is returned as it is.
eliminate_nothing(board, die, column_index) == board

\* A change of eliminate: every die of the column is cleared.
eliminate_column(board, die, column_index) ==
  [board EXCEPT ![column_index + 1] = <<Empty, Empty, Empty>>]

eliminate(board, die, column_index) ==
  [board EXCEPT ![column_index + 1] =
     << eliminate_square(@[1], die), eliminate_square(@[2], die),
        eliminate_square(@[3], die) >>]

\* Board.get_empty_squares: the columns are walked in order and each empty
\* square is pushed on the list of its row; the three row lists are then
\* flattened.
RowEmptySquares(board, row_n) ==
  SelectSeq(<<Move_new(row_n, 0), Move_new(row_n, 1), Move_new(row_n, 2)>>,
            LAMBDA sq : Cell(board, sq[1], sq[2]) = Empty)

\* A change of get_empty_squares: the squares are listed column by column.
get_empty_squares_by_column(board) ==
  SelectSeq(<<Move_new(0, 0), Move_new(1, 0), Move_new(2, 0),
              Move_new(0, 1), Move_new(1, 1), Move_new(2, 1),
              Move_new(0, 2), Move_new(1, 2), Move_new(2, 2)>>,
            LAMBDA sq : Cell(board, sq[1], sq[2]) = Empty)

get_empty_squares(board) ==
  RowEmptySquares(board, 0) \o RowEmptySquares(board, 1) \o RowEmptySquares(board, 2)

get_n_empty_squares(board) == Len(get_empty_squares(board))

\* A change of the loop body: the last empty square of the column is taken.
ColumnLastEmpty(board, col_n) ==
  IF Cell(board, 2, col_n) = Empty THEN <<Move_new(2, col_n)>>
  ELSE IF Cell(board, 1, col_n) = Empty THEN <<Move_new(1, col_n)>>
  ELSE IF Cell(board, 0, col_n) = Empty THEN <<Move_new(0, col_n)>>
  ELSE <<>>

\* The first empty square of one column, if any (the loop body with its break).
ColumnFirstEmpty(board, col_n) ==
  IF Cell(board, 0, col_n) = Empty THEN <<Move_new(0, col_n)>>
  ELSE IF Cell(board, 1, col_n) = Empty THEN <<Move_new(1, col_n)>>
  ELSE IF Cell(board, 2, col_n) = Empty THEN <<Move_new(2, col_n)>>
  ELSE <<>>

\* A change of get_empty_squares_up_to_row_symmetry: the last open column is
\* left out when another column is open.
get_empty_squares_up_to_row_symmetry_but_last(board) ==
  LET all == ColumnFirstEmpty(board, 0) \o ColumnFirstEmpty(board, 1)
               \o ColumnFirstEmpty(board, 2)
  IN IF Len(all) > 1 THEN SubSeq(all, 1, Len(all) - 1) ELSE all

get_empty_squares_up_to_row_symmetry(board) ==
  ColumnFirstEmpty(board, 0) \o ColumnFirstEmpty(board, 1) \o ColumnFirstEmpty(board, 2)

\* -------------------------------------------------------------------- Node

NodeType_Roll(player) == [tag |-> "Roll", player |-> player, die |-> Empty]

NodeType_Move(player, die) == [tag |-> "Move", player |-> player, die |-> die]

IsRoll(node) == node.node_type.tag = "Roll"

IsMove(node) == node.node_type.tag = "Move"

Node_new(player_1_board, player_2_board, node_type) ==
  [player_1_board |-> player_1_board, player_2_board |-> player_2_board,
   node_type |-> node_type, children |-> <<>>]

Node_empty == Node_new(Board_empty, Board_empty, NodeType_Roll(Player1))

from_player_and_boards(active_player, active_players_board, opponents_board, node_type) ==
  IF active_player = Player1
  THEN Node_new(active_players_board, opponents_board, node_type)
  ELSE Node_new(opponents_board, active_players_board, node_type)

get_player_board(node, player) ==
  IF player = Player1 THEN node.player_1_board ELSE node.player_2_board

get_active_player(node) == node.node_type.player

get_legal_moves(node) ==
  IF IsRoll(node)
  THEN [ok |-> FALSE, err |-> "Cannot get legal moves from a roll node", moves |-> <<>>]
  ELSE [ok |-> TRUE, err |-> "",
        moves |-> get_empty_squares(get_player_board(node, get_active_player(node)))]

get_legal_moves_up_to_row_symmetry(node) ==
  IF IsRoll(node)
  THEN [ok |-> FALSE, err |-> "Cannot get legal moves from a roll node", moves |-> <<>>]
  ELSE [ok |-> TRUE, err |-> "",
        moves |-> get_empty_squares_up_to_row_symmetry(
                    get_player_board(node, get_active_player(node)))]

is_legal_move(node, m) ==
  IF IsRoll(node) THEN FALSE
  ELSE LET moves == get_legal_moves(node)
       IN moves.ok /\ \E i \in 1..Len(moves.moves) : moves.moves[i] = m

Node_get_n_empty_squares(node) ==
  get_n_empty_squares(node.player_1_board) + get_n_empty_squares(node.player_2_board)

equals_up_to_children(node, other) ==
  /\ node.player_1_board = other.player_1_board
  /\ node.player_2_board = other.player_2_board
  /\ node.node_type = other.node_type

\* A change of is_game_over: both boards must be full.
is_game_over_both(node) == is_full(node.player_1_board) /\ is_full(node.player_2_board)

is_game_over(node) == is_full(node.player_1_board) \/ is_full(node.player_2_board)

get_outcome(node) ==
  IF is_game_over(node)
  THEN LET player_1_score == sum(node.player_1_board)
           player_2_score == sum(node.player_2_board)
       IN IF player_1_score > player_2_score THEN "Victory(Player1)"
          ELSE IF player_2_score > player_1_score THEN "Victory(Player2)"
          ELSE "Draw"
  ELSE "InProgress"

\* A change of get_score_difference: the score of Player1 alone.
get_score_difference_player_1(node) == sum(node.player_1_board)

get_score_difference(node) == sum(node.player_1_board) - sum(node.player_2_board)

\* Ok(node) or Err: the successor of a Move node by the move m.
Node_with_move_made(node, m) ==
  IF IsRoll(node)
  THEN [ok |-> FALSE, err |-> "Cannot make a move from a roll node", node |-> node]
  ELSE LET player == node.node_type.player
           die == node.node_type.die
           next_player == opponent(player)
           moved == Board_with_move_made(get_player_board(node, player), die, m)
           next_players_board ==
             eliminate(get_player_board(node, next_player), die, get_column(m))
       IN IF ~moved.ok
          THEN [ok |-> FALSE, err |-> moved.err, node |-> node]
          ELSE [ok |-> TRUE, err |-> "",
                node |-> from_player_and_boards(next_player, next_players_board,
                           moved.board, NodeType_Roll(next_player))]

\* Ok(()) with the child pushed, or Err with the node as it was.
add_move(node, next_move) ==
  IF IsRoll(node)
  THEN [ok |-> FALSE, err |-> "Cannot add move to a roll node", node |-> node]
  ELSE LET made == Node_with_move_made(node, next_move)
       IN IF made.ok
          THEN [ok |-> TRUE, err |-> "",
                node |-> [node EXCEPT !.children = Append(@, made.node)]]
          ELSE [ok |-> FALSE, err |-> made.err, node |-> node]

\* The Move child add_rolls pushes for one face.
RollChild(node, die) ==
  LET player == node.node_type.player
  IN from_player_and_boards(player, get_player_board(node, player),
       get_player_board(node, opponent(player)), NodeType_Move(player, die))

add_rolls(node) ==
  IF IsRoll(node)
  THEN [ok |-> TRUE, err |-> "",
        node |-> [node EXCEPT !.children =
                    @ \o [i \in 1..Len(Die_all) |-> RollChild(node, Die_all[i])]]]
  ELSE [ok |-> FALSE, err |-> "Cannot add rolls to a move node", node |-> node]

get_n_children(node) == Len(node.children)

is_leaf(node) == get_n_children(node) = 0

\* A change of get_child_from_roll: any expanded Roll node will do.
get_child_from_roll_any(node, roll) ==
  IF IsRoll(node)
  THEN IF get_n_children(node) = 0
       THEN [ok |-> FALSE, err |-> "Roll node does not have children", node |-> node]
       ELSE [ok |-> TRUE, err |-> "", node |-> node.children[(to_value(roll) - 1) + 1]]
  ELSE [ok |-> FALSE, err |-> "Cannot get child from roll from a move node", node |-> node]

get_child_from_roll(node, roll) ==
  IF IsRoll(node)
  THEN IF get_n_children(node) # 6
       THEN [ok |-> FALSE, err |-> "Roll node does not have children", node |-> node]
       ELSE [ok |-> TRUE, err |-> "", node |-> node.children[(to_value(roll) - 1) + 1]]
  ELSE [ok |-> FALSE, err |-> "Cannot get child from roll from a move node", node |-> node]

\* A change of get_child: the first child is returned without comparing it with
\* the node the move leads to.
get_child_first(node, row, col) ==
  LET expected == Node_with_move_made(node, Move_new(row, col))
  IN IF ~expected.ok
     THEN [ok |-> FALSE, err |-> expected.err, node |-> node]
     ELSE IF Len(node.children) = 0
          THEN [ok |-> FALSE, err |-> "No child", node |-> node]
          ELSE [ok |-> TRUE, err |-> "", node |-> node.children[1]]

\* The first stored child equal, children aside, to the expected successor.
get_child(node, row, col) ==
  LET expected == Node_with_move_made(node, Move_new(row, col))
      found == {i \in 1..Len(node.children) :
                  equals_up_to_children(node.children[i], expected.node)}
  IN IF ~expected.ok
     THEN [ok |-> FALSE, err |-> expected.err, node |-> node]
     ELSE IF found = {}
          THEN [ok |-> FALSE, err |-> "No child", node |-> node]
          ELSE [ok |-> TRUE, err |-> "",
                node |-> node.children[CHOOSE i \in found : \A j \in found : i <= j]]

get_child_from_move(node, m) == get_child(node, get_row(m), get_column(m))

\* The moves of a Move node added one after the other (the loop of
\* generate_children_up_to_symmetry); an add_move that fails stops it.
RECURSIVE AddMoves(_, _, _)
AddMoves(node, legal_moves, i) ==
  IF i > Len(legal_moves) THEN [ok |-> TRUE, err |-> "", node |-> node]
  ELSE Let(add_move(node, legal_moves[i]),
           LAMBDA added :
             IF added.ok THEN AddMoves(added.node, legal_moves, i + 1) ELSE added)

generate_children_up_to_symmetry(node) ==
  IF IsRoll(node)
  THEN add_rolls(node).node
  ELSE AddMoves(node, get_legal_moves_up_to_row_symmetry(node).moves, 1).node

RECURSIVE build_n_moves_up_to_symmetry(_, _)
\* The loop of build_n_moves_up_to_symmetry over the children: the first k
\* children, each replaced by what building it n moves deep gives.
RECURSIVE build_n_children(_, _, _)
build_n_children(children, n, k) ==
  IF k = 0 THEN <<>>
  ELSE Append(build_n_children(children, n, k - 1),
              build_n_moves_up_to_symmetry(children[k], n))

\* A change of build_n_moves_up_to_symmetry: one level of children whatever n.
build_n_moves_one_level(node, n) ==
  IF is_game_over(node) THEN node ELSE generate_children_up_to_symmetry(node)

build_n_moves_up_to_symmetry(node, n) ==
  IF is_game_over(node) THEN node
  ELSE IF IsRoll(node)
       THEN Let(generate_children_up_to_symmetry(node),
                LAMBDA g :
                  [g EXCEPT !.children =
                     build_n_children(g.children, n, Len(g.children))])
       ELSE IF n = 0 THEN node
            ELSE Let(generate_children_up_to_symmetry(node),
                     LAMBDA g :
                       [g EXCEPT !.children =
                          build_n_children(g.children, n - 1, Len(g.children))])

RECURSIVE build_entire_tree_up_to_symmetry(_)
\* The loop of build_entire_tree_up_to_symmetry over the children.
RECURSIVE build_entire_children(_, _)
build_entire_children(children, k) ==
  IF k = 0 THEN <<>>
  ELSE Append(build_entire_children(children, k - 1),
              build_entire_tree_up_to_symmetry(children[k]))

\* A change of build_entire_tree_up_to_symmetry: the children are generated
\* and left as they are.
build_entire_tree_one_level(node) ==
  IF is_game_over(node) THEN node ELSE generate_children_up_to_symmetry(node)

build_entire_tree_up_to_symmetry(node) ==
  IF is_game_over(node) THEN node
  ELSE Let(generate_children_up_to_symmetry(node),
           LAMBDA g :
             [g EXCEPT !.children = build_entire_children(g.children, Len(g.children))])

RECURSIVE get_max_depth(_)
get_max_depth(node) ==
  IF get_n_children(node) = 0 THEN 1
  ELSE LET ds == {get_max_depth(node.children[i]) : i \in 1..Len(node.children)}
       IN 1 + CHOOSE d \in ds : \A e \in ds : e <= d

\* The position of a node: what the builders' expansion of it depends on.
Position(node) == <<node.player_1_board, node.player_2_board, node.node_type>>

\* build_entire_tree_up_to_symmetry recurses without end from `node`: within
\* `fuel` levels some line of play comes back to a position it has been in.
RECURSIVE Revisits(_, _, _)
Revisits(node, path, fuel) ==
  /\ ~is_game_over(node)
  /\ \/ Position(node) \in path
     \/ /\ fuel > 0
        /\ \E g \in {generate_children_up_to_symmetry(node)} :
             \E p \in {path \cup {Position(node)}} :
               \E i \in 1..Len(g.children) : Revisits(g.children[i], p, fuel - 1)

\* Some line of play from `node` is longer than `fuel` levels.
RECURSIVE Deeper(_, _)
Deeper(node, fuel) ==
  /\ ~is_game_over(node)
  /\ \/ fuel = 0
     \/ \E g \in {generate_children_up_to_symmetry(node)} :
          \E i \in 1..Len(g.children) : Deeper(g.children[i], fuel - 1)

\* ------------------------------------------------------ evaluations (f32)

RECURSIVE GCD(_, _)
GCD(a, b) == IF b = 0 THEN a ELSE GCD(b, a % b)

Abs(x) == IF x < 0 THEN -x ELSE x

\* The rational n/d (d > 0) in lowest terms; inf is 0 for a finite value.
Rat(n, d) ==
  LET g == GCD(Abs(n), d)
  IN [inf |-> 0, n |-> n \div g, d |-> d \div g]

RatInt(n) == [inf |-> 0, n |-> n, d |-> 1]

NEG_INFINITY == [inf |-> -1, n |-> 0, d |-> 1]

INFINITY == [inf |-> 1, n |-> 0, d |-> 1]

RatAdd(a, b) == Rat(a.n * b.d + b.n * a.d, a.d * b.d)

RatMul(a, b) == Rat(a.n * b.n, a.d * b.d)

\* a / k for a count k >= 1.
RatDivInt(a, k) == Rat(a.n, a.d * k)

RatLess(a, b) ==
  IF a.inf # 0 \/ b.inf # 0 THEN a.inf < b.inf
  ELSE a.n * b.d < b.n * a.d

\* A change of compare_evaluation: the larger evaluation is better for both
\* players.
compare_evaluation_larger(player, evaluation, other_evaluation) ==
  IF evaluation = other_evaluation THEN "Equal"
  ELSE IF RatLess(other_evaluation, evaluation) THEN "Better" ELSE "Worse"

\* A change of compare_evaluation: an equal evaluation is not kept.
compare_evaluation_first(player, evaluation, other_evaluation) ==
  IF evaluation = other_evaluation THEN "Worse"
  ELSE IF player = Player1
       THEN (IF RatLess(other_evaluation, evaluation) THEN "Better" ELSE "Worse")
       ELSE (IF RatLess(evaluation, other_evaluation) THEN "Better" ELSE "Worse")

compare_evaluation(player, evaluation, other_evaluation) ==
  IF evaluation = other_evaluation THEN "Equal"
  ELSE IF player = Player1
       THEN (IF RatLess(other_evaluation, evaluation) THEN "Better" ELSE "Worse")
       ELSE (IF RatLess(evaluation, other_evaluation) THEN "Better" ELSE "Worse")

\* --------------------------------------------------------- leaf objectives

\* A change of from_outcome: a win of Player2 is worth what a win of Player1 is.
from_outcome_unsigned(outcome) ==
  CASE outcome = "Victory(Player1)" -> [ok |-> TRUE, value |-> RatInt(1)]
    [] outcome = "Victory(Player2)" -> [ok |-> TRUE, value |-> RatInt(1)]
    [] outcome = "Draw" -> [ok |-> TRUE, value |-> RatInt(0)]
    [] OTHER -> [ok |-> FALSE, value |-> RatInt(0)]

from_outcome(outcome) ==
  CASE outcome = "Victory(Player1)" -> [ok |-> TRUE, value |-> RatInt(1)]
    [] outcome = "Victory(Player2)" -> [ok |-> TRUE, value |-> RatInt(-1)]
    [] outcome = "Draw" -> [ok |-> TRUE, value |-> RatInt(0)]
    [] OTHER -> [ok |-> FALSE, value |-> RatInt(0)]

\* A change of difference_heuristic: the active player always gets the bonus of
\* finishing first.
difference_heuristic_always_bonus(node, empty_square_fill) ==
  LET difference == get_score_difference(node)
      player_1_empty_squares == get_n_empty_squares(node.player_1_board)
      player_2_empty_squares == get_n_empty_squares(node.player_2_board)
      finishing_first ==
        IF player_1_empty_squares > player_2_empty_squares THEN Player2
        ELSE IF player_1_empty_squares < player_2_empty_squares THEN Player1
        ELSE get_active_player(node)
      finishing_first_bonus == 1
      empty_square_raw_difference ==
        IF finishing_first = Player1
        THEN player_2_empty_squares - player_1_empty_squares + finishing_first_bonus
        ELSE -(player_1_empty_squares - player_2_empty_squares + finishing_first_bonus)
  IN IF is_game_over(node) THEN RatInt(difference)
     ELSE RatAdd(RatInt(difference),
                 RatMul(RatInt(empty_square_raw_difference), empty_square_fill))

difference_heuristic(node, empty_square_fill) ==
  LET difference == get_score_difference(node)
      player_1_empty_squares == get_n_empty_squares(node.player_1_board)
      player_2_empty_squares == get_n_empty_squares(node.player_2_board)
      finishing_first ==
        IF player_1_empty_squares > player_2_empty_squares THEN Player2
        ELSE IF player_1_empty_squares < player_2_empty_squares THEN Player1
        ELSE get_active_player(node)
      finishing_first_bonus ==
        IF get_active_player(node) = finishing_first THEN 1 ELSE -1
      empty_square_raw_difference ==
        IF finishing_first = Player1
        THEN player_2_empty_squares - player_1_empty_squares + finishing_first_bonus
        ELSE -(player_1_empty_squares - player_2_empty_squares + finishing_first_bonus)
      empty_square_heuristic ==
        RatMul(RatInt(empty_square_raw_difference), empty_square_fill)
  IN IF is_game_over(node) THEN RatInt(difference)
     ELSE RatAdd(RatInt(difference), empty_square_heuristic)

\* The objective functions handed to the evaluator: the closure of
\* get_evaluation_tree_brute_force, which panics (expect) on a node whose
\* outcome is InProgress, and difference_heuristic with its fill.
ObjOutcome == "outcome"

ObjDifference == "difference_heuristic(3.5)"

ObjDifference0 == "difference_heuristic(0)"

Objectives == {ObjOutcome, ObjDifference, ObjDifference0}

objective_function(f, node) ==
  CASE f = ObjOutcome ->
         LET e == from_outcome(get_outcome(node))
         IN IF e.ok THEN [status |-> "ok", value |-> e.value]
            ELSE [status |-> "panic", value |-> RatInt(0)]
    [] f = ObjDifference ->
         [status |-> "ok", value |-> difference_heuristic(node, Rat(7, 2))]
    [] OTHER ->
         [status |-> "ok", value |-> difference_heuristic(node, RatInt(0))]

\* ---------------------------------------------------------------- evaluator

EvalOk(moves, evaluation) ==
  [status |-> "ok", moves |-> moves, evaluation |-> evaluation]

EvalErr == [status |-> "err", moves |-> <<>>, evaluation |-> RatInt(0)]

EvalPanic == [status |-> "panic", moves |-> <<>>, evaluation |-> RatInt(0)]

\* A change of average_denominator: the six values are summed, not averaged.
average_denominator_one(child_roll_node) == 1

\* The weight of one child in the average of a Roll node.
average_denominator(child_roll_node) == get_n_children(child_roll_node)

RECURSIVE get_next_moves_and_evaluation(_, _)
RECURSIVE AverageLoop(_, _, _, _)
RECURSIVE MovesLoop(_, _, _, _, _, _)
RECURSIVE MoveStep(_, _, _, _, _, _, _, _)

\* The inner loop: average_evaluation after the children from j on.
AverageLoop(child_roll_node, f, j, average_evaluation) ==
  IF j > Len(child_roll_node.children)
  THEN [status |-> "ok", value |-> average_evaluation]
  ELSE Let(get_next_moves_and_evaluation(child_roll_node.children[j], f),
           LAMBDA r :
             IF r.status # "ok"
             THEN [status |-> "panic", value |-> RatInt(0)]
             ELSE Let(RatAdd(average_evaluation,
                             RatDivInt(r.evaluation,
                                       average_denominator(child_roll_node))),
                      LAMBDA acc : AverageLoop(child_roll_node, f, j + 1, acc)))

\* A change of the early return of the evaluator: the value returned for a
\* child that is over is that of the node, not of the child.
MoveStep_values_parent(node, f, legal_moves, i, best_evaluation, next_moves, next_move, child_roll_node) ==
  IF is_game_over(child_roll_node)
  THEN Let(objective_function(f, node),
           LAMBDA leaf :
             IF leaf.status = "ok" THEN EvalOk(<<next_move>>, leaf.value)
             ELSE EvalPanic)
  ELSE Let(AverageLoop(child_roll_node, f, 1, RatInt(0)),
           LAMBDA avg :
             IF avg.status # "ok" THEN EvalPanic
             ELSE Let(compare_evaluation(get_active_player(node), avg.value,
                                         best_evaluation),
                      LAMBDA cmp :
                        IF cmp = "Equal"
                        THEN MovesLoop(node, f, legal_moves, i + 1, best_evaluation,
                                       Append(next_moves, next_move))
                        ELSE IF cmp = "Better"
                        THEN MovesLoop(node, f, legal_moves, i + 1, avg.value,
                                       <<next_move>>)
                        ELSE MovesLoop(node, f, legal_moves, i + 1, best_evaluation,
                                       next_moves)))

\* One turn of the outer loop, for the child found for next_move.
MoveStep(node, f, legal_moves, i, best_evaluation, next_moves, next_move, child_roll_node) ==
  IF is_game_over(child_roll_node)
  THEN Let(objective_function(f, child_roll_node),
           LAMBDA leaf :
             IF leaf.status = "ok" THEN EvalOk(<<next_move>>, leaf.value)
             ELSE EvalPanic)
  ELSE Let(AverageLoop(child_roll_node, f, 1, RatInt(0)),
           LAMBDA avg :
             IF avg.status # "ok" THEN EvalPanic
             ELSE Let(compare_evaluation(get_active_player(node), avg.value,
                                         best_evaluation),
                      LAMBDA cmp :
                        IF cmp = "Equal"
                        THEN MovesLoop(node, f, legal_moves, i + 1, best_evaluation,
                                       Append(next_moves, next_move))
                        ELSE IF cmp = "Better"
                        THEN MovesLoop(node, f, legal_moves, i + 1, avg.value,
                                       <<next_move>>)
                        ELSE MovesLoop(node, f, legal_moves, i + 1, best_evaluation,
                                       next_moves)))

\* The outer loop over the legal moves from the i-th on.
MovesLoop(node, f, legal_moves, i, best_evaluation, next_moves) ==
  IF i > Len(legal_moves) THEN EvalOk(next_moves, best_evaluation)
  ELSE Let(get_child_from_move(node, legal_moves[i]),
           LAMBDA found :
             IF ~found.ok THEN EvalPanic
             ELSE MoveStep(node, f, legal_moves, i, best_evaluation, next_moves,
                           legal_moves[i], found.node))

get_next_moves_and_evaluation(node, f) ==
  IF IsRoll(node) THEN EvalErr
  ELSE IF is_leaf(node)
  THEN Let(objective_function(f, node),
           LAMBDA leaf :
             IF leaf.status = "ok" THEN EvalOk(<<>>, leaf.value) ELSE EvalPanic)
  ELSE Let(get_legal_moves_up_to_row_symmetry(node).moves,
           LAMBDA legal_moves :
             MovesLoop(node, f, legal_moves, 1,
                       IF get_active_player(node) = Player1
                       THEN NEG_INFINITY ELSE INFINITY,
                       <<>>))

\* ------------------------------------------------------------------- Solver

ModeBruteForce == [kind |-> "BruteForce", max_brute |-> 0, depth |-> 0, f |-> ObjOutcome]

ModeHeuristic(depth, f) == [kind |-> "Heuristic", max_brute |-> 0, depth |-> depth, f |-> f]

ModeHybrid(max_brute, depth, f) ==
  [kind |-> "Hybrid", max_brute |-> max_brute, depth |-> depth, f |-> f]

\* Node.get_evaluation_tree, which the solver calls on its root: the evaluator's
\* result with the best moves carried by the tree it returns (no tree at a leaf).
Node_get_evaluation_tree(node, f) ==
  Let(get_next_moves_and_evaluation(node, f),
      LAMBDA r :
        [status |-> r.status,
         maybe_tree |->
           IF r.status = "ok" /\ ~is_leaf(node)
           THEN [some |-> TRUE, node_type |-> node.node_type, moves |-> r.moves]
           ELSE [some |-> FALSE, node_type |-> node.node_type, moves |-> <<>>],
         evaluation |-> r.evaluation])

\* Node.get_moves_left_ignoring_elimination: the empty squares of both boards.
get_moves_left_ignoring_elimination(node) == Node_get_n_empty_squares(node)

\* No result: the call does not return.
NoTree(status, node) ==
  [status |-> status,
   maybe_tree |-> [some |-> FALSE, node_type |-> node.node_type, moves |-> <<>>],
   evaluation |-> RatInt(0)]

\* Each of the three returns the solver's root as built and what
\* Node.get_evaluation_tree gave for it.  The brute-force builder recurses once
\* per level of the tree: from a root with a line of play that comes back to a
\* position it never returns (the stack overflows, "overflow"); a tree deeper
\* than MaxTreeDepth without such a line is beyond the model ("too_deep").
get_evaluation_tree_brute_force(root) ==
  IF Revisits(root, {}, MaxTreeDepth)
  THEN [root |-> root, tree |-> NoTree("overflow", root)]
  ELSE IF Deeper(root, MaxTreeDepth)
  THEN [root |-> root, tree |-> NoTree("too_deep", root)]
  ELSE Let(build_entire_tree_up_to_symmetry(root),
           LAMBDA built :
             [root |-> built, tree |-> Node_get_evaluation_tree(built, ObjOutcome)])

get_evaluation_tree_heuristic(root, depth, objective_function_) ==
  Let(build_n_moves_up_to_symmetry(root, depth),
      LAMBDA built :
        [root |-> built, tree |-> Node_get_evaluation_tree(built, objective_function_)])

\* A change of get_evaluation_tree_hybrid: brute force only below the bound.
get_evaluation_tree_hybrid_below(root, max_moves_left_before_brute_force, depth, objective_function_) ==
  IF get_moves_left_ignoring_elimination(root) < max_moves_left_before_brute_force
  THEN get_evaluation_tree_brute_force(root)
  ELSE get_evaluation_tree_heuristic(root, depth, objective_function_)

get_evaluation_tree_hybrid(root, max_moves_left_before_brute_force, depth, objective_function_) ==
  IF get_moves_left_ignoring_elimination(root) <= max_moves_left_before_brute_force
  THEN get_evaluation_tree_brute_force(root)
  ELSE get_evaluation_tree_heuristic(root, depth, objective_function_)

Solver_get_evaluation_tree(root, solver_mode) ==
  CASE solver_mode.kind = "BruteForce" -> get_evaluation_tree_brute_force(root)
    [] solver_mode.kind = "Heuristic" ->
         get_evaluation_tree_heuristic(root, solver_mode.depth, solver_mode.f)
    [] OTHER ->
         get_evaluation_tree_hybrid(root, solver_mode.max_brute, solver_mode.depth,
                                    solver_mode.f)

get_best_moves_from_evaluation_tree(maybe_tree) ==
  IF maybe_tree.some
  THEN IF maybe_tree.node_type.tag = "Roll"
       THEN [ok |-> FALSE, moves |-> <<>>]
       ELSE [ok |-> TRUE, moves |-> maybe_tree.moves]
  ELSE [ok |-> TRUE, moves |-> <<>>]

\* The solver's root after the call, and Ok((moves, evaluation)), Err or a panic.
get_best_moves_and_evaluation(root, solver_mode) ==
  Let(Solver_get_evaluation_tree(root, solver_mode),
      LAMBDA r :
        LET best == get_best_moves_from_evaluation_tree(r.tree.maybe_tree)
        IN [root |-> r.root,
            status |-> IF r.tree.status = "ok" /\ ~best.ok THEN "panic"
                       ELSE r.tree.status,
            moves |-> IF r.tree.status = "ok" /\ best.ok THEN best.moves ELSE <<>>,
            evaluation |-> r.tree.evaluation])

\* ------------------------------------------------------------ state machine

VARIABLES
  root,        \* the node the caller holds (Solver.root, main's game)
  result,      \* what the last operation returned
  plies,       \* placements and rolls played so far
  expansions   \* expansion calls made on root since it was constructed

vars == <<root, result, plies, expansions>>

\* Bounds of the runs: steps of play from the constructed position, and
\* expansion calls on one node.
MaxPlies == 1

MaxExpansions == 2

\* "255/1_2/352": the three rows of a board, top row first, as from_string
\* stores them (board.columns[col_n][row_n]); 0 stands for the character '_'.
SquareOf(c) == IF c = 0 THEN Empty ELSE Die_new(c)

BoardOf(r0, r1, r2) ==
  << <<SquareOf(r0[1]), SquareOf(r1[1]), SquareOf(r2[1])>>,
     <<SquareOf(r0[2]), SquareOf(r1[2]), SquareOf(r2[2])>>,
     <<SquareOf(r0[3]), SquareOf(r1[3]), SquareOf(r2[3])>> >>

\* The positions the runs start from: those of the repository's tests.
InitBoards ==
  { <<BoardOf(<<2,5,5>>, <<1,0,2>>, <<3,5,2>>), BoardOf(<<1,5,0>>, <<3,3,3>>, <<1,2,0>>)>>,
    <<BoardOf(<<6,5,1>>, <<1,4,2>>, <<6,2,0>>), BoardOf(<<2,5,6>>, <<1,0,2>>, <<6,2,0>>)>>,
    <<Board_empty, Board_empty>>,
    <<BoardOf(<<2,5,5>>, <<1,0,2>>, <<3,5,2>>), BoardOf(<<2,5,5>>, <<1,0,2>>, <<6,5,2>>)>>,
    <<BoardOf(<<1,1,1>>, <<1,1,1>>, <<1,1,0>>), BoardOf(<<2,2,2>>, <<2,2,2>>, <<2,2,0>>)>>,
    <<BoardOf(<<2,5,1>>, <<1,4,2>>, <<3,2,0>>), BoardOf(<<2,5,6>>, <<1,0,2>>, <<6,2,0>>)>>,
    <<BoardOf(<<1,1,1>>, <<1,1,1>>, <<1,1,1>>), BoardOf(<<2,4,0>>, <<2,5,0>>, <<2,0,0>>)>>,
    <<BoardOf(<<2,5,5>>, <<1,2,2>>, <<3,5,2>>), BoardOf(<<1,5,0>>, <<3,3,3>>, <<1,2,0>>)>>,
    <<BoardOf(<<6,2,0>>, <<1,0,2>>, <<6,2,0>>), BoardOf(<<3,5,6>>, <<1,2,2>>, <<6,2,0>>)>>,
    <<BoardOf(<<3,5,0>>, <<0,0,0>>, <<0,0,0>>), BoardOf(<<0,0,4>>, <<0,0,4>>, <<0,0,0>>)>>,
    <<BoardOf(<<2,0,0>>, <<0,0,5>>, <<2,0,3>>), Board_empty>> }

NodeTypes ==
  {NodeType_Roll(p) : p \in Players}
    \cup {NodeType_Move(p, d) : p \in Players, d \in Dice}

\* The modes asked for; Hybrid carries the depth 1 of test_solver_solves_hybrid.
SolverModes ==
  {ModeBruteForce}
    \cup {ModeHeuristic(n, f) : n \in 0..MaxDepth, f \in {ObjDifference, ObjDifference0}}
    \cup {ModeHybrid(b, 1, ObjDifference) : b \in 0..MaxBrute}

NoResult ==
  [op |-> "new", status |-> "ok", from |-> Node_empty, arg |-> <<>>,
   node |-> Node_empty, moves |-> <<>>, evaluation |-> RatInt(0)]

Result(op, status, from, arg, node, moves, evaluation) ==
  [op |-> op, status |-> status, from |-> from, arg |-> arg,
   node |-> node, moves |-> moves, evaluation |-> evaluation]

Init ==
  /\ \E bs \in InitBoards, nt \in NodeTypes : root = Node_new(bs[1], bs[2], nt)
  /\ result = NoResult
  /\ plies = 0
  /\ expansions = 0

\* Solver::from_root(root).get_best_moves_and_evaluation(mode) on a root as
\* constructed.
Solve(solver_mode) ==
  /\ result.op = "new"
  /\ \E r \in {get_best_moves_and_evaluation(root, solver_mode)} :
        /\ root' = r.root
        /\ result' = Result("solve", r.status, root, solver_mode, r.root,
                            r.moves, r.evaluation)
  /\ UNCHANGED <<plies, expansions>>

\* game = game.with_move_made(m): the play loop's placement.
MakeMove(m) ==
  /\ is_leaf(root)
  /\ plies < MaxPlies
  /\ LET r == Node_with_move_made(root, m)
     IN /\ root' = IF r.ok THEN r.node ELSE root
        /\ result' = Result("with_move_made", IF r.ok THEN "ok" ELSE "err",
                            root, m, r.node, <<>>, RatInt(0))
        /\ plies' = IF r.ok THEN plies + 1 ELSE plies
  /\ UNCHANGED expansions

\* Node.with_rolls: a clone with the six rolls added.
with_rolls(node, die) ==
  IF IsRoll(node)
  THEN [ok |-> TRUE, err |-> "", node |-> add_rolls(node).node]
  ELSE [ok |-> FALSE, err |-> "Cannot roll from a move node", node |-> node]

\* game = game.with_rolls(roll).get_child_from_roll(roll): the play loop's roll.
RollDie(die) ==
  /\ is_leaf(root)
  /\ plies < MaxPlies
  /\ ~is_game_over(root)
  /\ LET w == with_rolls(root, die)
         c == get_child_from_roll(w.node, die)
     IN /\ root' = IF w.ok /\ c.ok THEN c.node ELSE root
        /\ result' = Result("roll", IF w.ok /\ c.ok THEN "ok" ELSE "err",
                            root, die, c.node, <<>>, RatInt(0))
        /\ plies' = IF w.ok /\ c.ok THEN plies + 1 ELSE plies
  /\ UNCHANGED expansions

AddRolls ==
  /\ plies = 0
  /\ expansions < MaxExpansions
  /\ LET r == add_rolls(root)
     IN /\ root' = r.node
        /\ result' = Result("add_rolls", IF r.ok THEN "ok" ELSE "err",
                            root, <<>>, r.node, <<>>, RatInt(0))
  /\ expansions' = expansions + 1
  /\ UNCHANGED plies

AddMove(m) ==
  /\ plies = 0
  /\ expansions < MaxExpansions
  /\ LET r == add_move(root, m)
     IN /\ root' = r.node
        /\ result' = Result("add_move", IF r.ok THEN "ok" ELSE "err",
                            root, m, r.node, <<>>, RatInt(0))
  /\ expansions' = expansions + 1
  /\ UNCHANGED plies

GenerateChildren ==
  /\ plies = 0
  /\ expansions < MaxExpansions
  /\ root' = generate_children_up_to_symmetry(root)
  /\ result' = Result("generate_children_up_to_symmetry", "ok", root, <<>>,
                      root', <<>>, RatInt(0))
  /\ expansions' = expansions + 1
  /\ UNCHANGED plies

GetChildFromRoll(die) ==
  /\ LET r == get_child_from_roll(root, die)
     IN result' = Result("get_child_from_roll", IF r.ok THEN "ok" ELSE "err",
                         root, die, r.node, <<>>, RatInt(0))
  /\ UNCHANGED <<root, plies, expansions>>

\* The tree interface on a constructed node, and the play loop.
\* root.get_legal_moves()
GetLegalMoves ==
  /\ LET r == get_legal_moves(root)
     IN result' = Result("get_legal_moves", IF r.ok THEN "ok" ELSE "err",
                         root, <<>>, root, r.moves, RatInt(0))
  /\ UNCHANGED <<root, plies, expansions>>

\* root.get_legal_moves_up_to_row_symmetry()
GetLegalMovesUpToRowSymmetry ==
  /\ LET r == get_legal_moves_up_to_row_symmetry(root)
     IN result' = Result("get_legal_moves_up_to_row_symmetry",
                         IF r.ok THEN "ok" ELSE "err",
                         root, <<>>, root, r.moves, RatInt(0))
  /\ UNCHANGED <<root, plies, expansions>>

Next ==
  \/ \E m \in Moves : MakeMove(m)
  \/ \E die \in Dice : RollDie(die)
  \/ AddRolls
  \/ \E m \in Moves : AddMove(m)
  \/ GenerateChildren
  \/ \E die \in Dice : GetChildFromRoll(die)
  \/ GetLegalMoves
  \/ GetLegalMovesUpToRowSymmetry

Spec == Init /\ [][Next]_vars

\* The solver on a constructed root.
NextSolver == \E solver_mode \in SolverModes : Solve(solver_mode)

SpecSolver == Init /\ [][NextSolver]_vars


\* --------------------------------------------- queries on a constructed node

\* The fills difference_heuristic is called with: 0 and 3.5 as in the tests, and 1.
Fills == {RatInt(0), Rat(7, 2), RatInt(1)}

\* The depths a node is built to before it is asked: not at all, and one move
\* with the rolls that follow it.
BuildDepths == {0, 1}

\* root.build_n_moves_up_to_symmetry(n) on a node without children.
BuildNMoves(n) ==
  /\ is_leaf(root)
  /\ expansions < MaxExpansions
  /\ root' = build_n_moves_up_to_symmetry(root, n)
  /\ result' = Result("build_n_moves_up_to_symmetry", "ok", root, n, root', <<>>,
                      RatInt(0))
  /\ expansions' = expansions + 1
  /\ UNCHANGED plies

\* root.get_child_from_move(m)
GetChildFromMove(m) ==
  /\ LET r == get_child_from_move(root, m)
     IN result' = Result("get_child_from_move", IF r.ok THEN "ok" ELSE "err",
                         root, m, r.node, <<>>, RatInt(0))
  /\ UNCHANGED <<root, plies, expansions>>

\* Solver::difference_heuristic(&root, empty_square_fill)
DifferenceHeuristic(empty_square_fill) ==
  /\ result' = Result("difference_heuristic", "ok", root, empty_square_fill, root,
                      <<>>, difference_heuristic(root, empty_square_fill))
  /\ UNCHANGED <<root, plies, expansions>>

\* root.get_next_moves_and_evaluation(f)
Evaluate(f) ==
  /\ \E r \in {get_next_moves_and_evaluation(root, f)} :
       result' = Result("get_next_moves_and_evaluation", r.status, root, f, root,
                        r.moves, r.evaluation)
  /\ UNCHANGED <<root, plies, expansions>>

NextQuery ==
  \/ GenerateChildren
  \/ \E n \in BuildDepths : BuildNMoves(n)
  \/ \E m \in Moves : GetChildFromMove(m)
  \/ \E empty_square_fill \in Fills : DifferenceHeuristic(empty_square_fill)
  \/ \E f \in Objectives : Evaluate(f)

SpecQuery == Init /\ [][NextQuery]_vars

\* ------------------------------------------------- boards and outcomes alone

\* Every column of three squares.
AllColumns == {<<a, b, c>> : a \in Squares, b \in Squares, c \in Squares}

\* The columns the other two places of a board are filled from.
SomeColumns ==
  { <<Empty, Empty, Empty>>, <<"One", "One", "One">>, <<"Six", "Two", "Six">> }

\* Boards with every column in one place, and some columns in the other two.
BoardFamily ==
  {<<c, x, y>> : c \in AllColumns, x \in SomeColumns, y \in SomeColumns}
    \cup {<<x, c, y>> : c \in AllColumns, x \in SomeColumns, y \in SomeColumns}
    \cup {<<x, y, c>> : c \in AllColumns, x \in SomeColumns, y \in SomeColumns}

OtherBoards ==
  { Board_empty,
    BoardOf(<<1,1,1>>, <<1,1,1>>, <<1,1,1>>),
    BoardOf(<<2,5,6>>, <<1,0,2>>, <<6,2,0>>) }

InitBoard ==
  /\ \E b \in BoardFamily, o \in OtherBoards :
        root = Node_new(b, o, NodeType_Roll(Player1))
  /\ result = NoResult
  /\ plies = 0
  /\ expansions = 0

\* node.get_player_board(player).sum()
BoardSum(player) ==
  /\ result' = Result("sum", "ok", root, player, root, <<>>,
                      RatInt(sum(get_player_board(root, player))))
  /\ UNCHANGED <<root, plies, expansions>>

IsGameOver ==
  /\ result' = Result("is_game_over", "ok", root, is_game_over(root), root, <<>>,
                      RatInt(0))
  /\ UNCHANGED <<root, plies, expansions>>

GetOutcome ==
  /\ result' = Result("get_outcome", "ok", root, get_outcome(root), root, <<>>,
                      RatInt(0))
  /\ UNCHANGED <<root, plies, expansions>>

NextBoard ==
  \/ \E player \in Players : BoardSum(player)
  \/ IsGameOver
  \/ GetOutcome

SpecBoard == InitBoard /\ [][NextBoard]_vars

\* ------------------------------------------------------- the squares of a board

\* Boards with every pattern of empty and set squares.
PatternBoards == [1..3 -> [1..3 -> {Empty, Die_new(3)}]]

InitSquares ==
  /\ \E b \in BoardFamily \cup PatternBoards :
        root = Node_new(b, Board_empty, NodeType_Roll(Player1))
  /\ result = NoResult
  /\ plies = 0
  /\ expansions = 0

\* node.get_player_board(player).get_empty_squares()
GetEmptySquares(player) ==
  /\ result' = Result("get_empty_squares", "ok", root, player, root,
                      get_empty_squares(get_player_board(root, player)), RatInt(0))
  /\ UNCHANGED <<root, plies, expansions>>

\* node.get_player_board(player).get_empty_squares_up_to_row_symmetry()
GetEmptySquaresUpToRowSymmetry(player) ==
  /\ result' = Result("get_empty_squares_up_to_row_symmetry", "ok", root, player, root,
                      get_empty_squares_up_to_row_symmetry(get_player_board(root, player)),
                      RatInt(0))
  /\ UNCHANGED <<root, plies, expansions>>

\* node.get_player_board(player).get_column_multiplicity(column_index)
GetColumnMultiplicity(player, column_index) ==
  /\ result' = Result("get_column_multiplicity", "ok", root,
                      [player |-> player, column_index |-> column_index], root, <<>>,
                      RatInt(get_column_multiplicity(get_player_board(root, player),
                                                     column_index)))
  /\ UNCHANGED <<root, plies, expansions>>

\* node.get_player_board(player).is_full()
IsFull(player) ==
  /\ result' = Result("is_full", "ok", root,
                      [player |-> player, full |-> is_full(get_player_board(root, player))],
                      root, <<>>, RatInt(0))
  /\ UNCHANGED <<root, plies, expansions>>

\* node.get_player_board(player).get_n_empty_squares()
GetNEmptySquares(player) ==
  /\ result' = Result("get_n_empty_squares", "ok", root, player, root, <<>>,
                      RatInt(get_n_empty_squares(get_player_board(root, player))))
  /\ UNCHANGED <<root, plies, expansions>>

NextSquares ==
  \/ BoardSum(Player1)
  \/ GetEmptySquares(Player1)
  \/ GetEmptySquaresUpToRowSymmetry(Player1)
  \/ \E column_index \in 0..2 : GetColumnMultiplicity(Player1, column_index)
  \/ IsFull(Player1)
  \/ GetNEmptySquares(Player1)

SpecSquares == InitSquares /\ [][NextSquares]_vars

\* ------------------------------------------------- boards and moves as text
\* A String is the sequence of its characters, each a one-character string.

\* Die.to_string: the decimal digit of the value.
Die_to_string(die) ==
  CASE to_value(die) = 1 -> <<"1">>
    [] to_value(die) = 2 -> <<"2">>
    [] to_value(die) = 3 -> <<"3">>
    [] to_value(die) = 4 -> <<"4">>
    [] to_value(die) = 5 -> <<"5">>
    [] to_value(die) = 6 -> <<"6">>

Die_from_char(c) ==
  CASE c = "1" -> [ok |-> TRUE, square |-> "One"]
    [] c = "2" -> [ok |-> TRUE, square |-> "Two"]
    [] c = "3" -> [ok |-> TRUE, square |-> "Three"]
    [] c = "4" -> [ok |-> TRUE, square |-> "Four"]
    [] c = "5" -> [ok |-> TRUE, square |-> "Five"]
    [] c = "6" -> [ok |-> TRUE, square |-> "Six"]
    [] OTHER -> [ok |-> FALSE, square |-> Empty]

Square_to_string(square) == IF square = Empty THEN <<"_">> ELSE Die_to_string(square)

Square_from_char(c) ==
  IF c = "_" THEN [ok |-> TRUE, square |-> Empty] ELSE Die_from_char(c)

\* The inner loop of Board.to_string for one column: each element is added
\* to the string of its row.
RECURSIVE to_string_column(_, _, _)
to_string_column(row_strings, column, row_n) ==
  IF row_n >= Len(column) THEN row_strings
  ELSE to_string_column(
         [row_strings EXCEPT ![row_n + 1] = @ \o Square_to_string(column[row_n + 1])],
         column, row_n + 1)

\* The outer loop of Board.to_string over the first k columns.
RECURSIVE to_string_columns(_, _)
to_string_columns(board, k) ==
  IF k = 0 THEN << <<>>, <<>>, <<>> >>
  ELSE to_string_column(to_string_columns(board, k - 1), board[k], 0)

\* A change of Board.to_string: the three columns are written as the lines.
Board_to_string_by_column(board) ==
  Square_to_string(board[1][1]) \o Square_to_string(board[1][2])
    \o Square_to_string(board[1][3]) \o <<"\n">>
    \o Square_to_string(board[2][1]) \o Square_to_string(board[2][2])
    \o Square_to_string(board[2][3]) \o <<"\n">>
    \o Square_to_string(board[3][1]) \o Square_to_string(board[3][2])
    \o Square_to_string(board[3][3])

Board_to_string(board) ==
  LET row_strings == to_string_columns(board, Len(board))
  IN row_strings[1] \o <<"\n">> \o row_strings[2] \o <<"\n">> \o row_strings[3]

\* s.split("\n"): the pieces between the newlines, at least one.
RECURSIVE split(_)
split(s) ==
  IF \A i \in 1..Len(s) : s[i] # "\n" THEN <<s>>
  ELSE LET n == CHOOSE i \in 1..Len(s) : s[i] = "\n" /\ \A j \in 1..(i - 1) : s[j] # "\n"
       IN <<SubSeq(s, 1, n - 1)>> \o split(SubSeq(s, n + 1, Len(s)))

\* The inner loop of Board::from_string over one row, from the character
\* col_n on: Err on a character that is no square, and a panic on writing
\* board.columns[col_n][row_n] outside the three columns and three rows.
RECURSIVE from_string_row(_, _, _, _)
from_string_row(board, row, row_n, col_n) ==
  IF col_n >= Len(row) THEN [status |-> "ok", board |-> board]
  ELSE LET square == Square_from_char(row[col_n + 1])
       IN IF ~square.ok THEN [status |-> "err", board |-> board]
          ELSE IF col_n >= Len(board) \/ row_n >= Len(board[col_n + 1])
               THEN [status |-> "panic", board |-> board]
               ELSE from_string_row(
                      [board EXCEPT ![col_n + 1][row_n + 1] = square.square],
                      row, row_n, col_n + 1)

\* The outer loop of Board::from_string, from the row row_n on.
RECURSIVE from_string_rows(_, _, _)
from_string_rows(board, rows, row_n) ==
  IF row_n >= Len(rows) THEN [status |-> "ok", board |-> board]
  ELSE Let(from_string_row(board, rows[row_n + 1], row_n, 0),
           LAMBDA r : IF r.status = "ok"
                      THEN from_string_rows(r.board, rows, row_n + 1)
                      ELSE r)

Board_from_string(s) ==
  LET stripped_s == SelectSeq(s, LAMBDA c : ~(c = " " \/ c = "\t"))
  IN from_string_rows(Board_empty, split(stripped_s), 0)

\* The decimal digits of a row or column number below ten.
usize_to_string(n) ==
  <<(<<"0", "1", "2", "3", "4", "5", "6", "7", "8", "9">>)[n + 1]>>

\* format!("({}, {})", self.row, self.column)
Move_to_string(m) ==
  <<"(">> \o usize_to_string(get_row(m)) \o <<",", " ">>
    \o usize_to_string(get_column(m)) \o <<")">>

is_whitespace(c) == c \in {" ", "\t", "\n"}

\* One of the two match expressions of Move::from_string.
move_digit(c) ==
  CASE c = "0" -> [ok |-> TRUE, value |-> 0]
    [] c = "1" -> [ok |-> TRUE, value |-> 1]
    [] c = "2" -> [ok |-> TRUE, value |-> 2]
    [] OTHER -> [ok |-> FALSE, value |-> 0]

Move_from_string(s) ==
  LET stripped_s == SelectSeq(s, LAMBDA c : ~is_whitespace(c))
  IN IF Len(stripped_s) # 2 THEN [ok |-> FALSE, move |-> Move_new(0, 0)]
     ELSE IF ~move_digit(stripped_s[1]).ok THEN [ok |-> FALSE, move |-> Move_new(0, 0)]
     ELSE IF ~move_digit(stripped_s[2]).ok THEN [ok |-> FALSE, move |-> Move_new(0, 0)]
     ELSE [ok |-> TRUE,
           move |-> Move_new(move_digit(stripped_s[1]).value,
                             move_digit(stripped_s[2]).value)]

\* The longest string handed to a parser.
MaxLen == 4

\* The result of a conversion: what went in and what came out.
Parsed(op, status, input, output) ==
  [op |-> op, status |-> status, input |-> input, output |-> output]

\* The strings of at most MaxLen characters of `chars`.
StringsOver(chars) == UNION {[1..n -> chars] : n \in 0..MaxLen}

\* Strings handed to Board::from_string: squares, a newline, a blank, a tab
\* and a character that is no square.
BoardStrings == StringsOver({"_", "3", "\n", " ", "\t", "x"})

\* Strings handed to Move::from_string.
MoveStrings == StringsOver({"0", "1", "2", "3", " ", "(", ",", ")"})

InitBoardString ==
  /\ \/ /\ \E b \in PatternBoards, die \in Dice :
             root = Node_new(b, Board_empty, NodeType_Move(Player1, die))
        /\ result = NoResult
     \/ /\ \E b \in BoardFamily : root = Node_new(b, Board_empty, NodeType_Roll(Player1))
        /\ result = NoResult
     \/ /\ root = Node_empty
        /\ \E s \in BoardStrings : result = Parsed("input", "ok", <<>>, s)
  /\ plies = 0
  /\ expansions = 0

\* root.player_1_board.to_string()
BoardToString ==
  /\ result' = Parsed("Board::to_string", "ok", root.player_1_board,
                      Board_to_string(root.player_1_board))
  /\ UNCHANGED <<root, plies, expansions>>

\* Board::from_string(s) of the string at hand
BoardFromString ==
  /\ result.op \in {"input", "Board::to_string"}
  /\ \E r \in {Board_from_string(result.output)} :
       result' = Parsed("Board::from_string", r.status, result.output, r.board)
  /\ UNCHANGED <<root, plies, expansions>>

NextBoardString ==
  \/ \E m \in Moves : MakeMove(m)
  \/ BoardToString
  \/ BoardFromString

SpecBoardString == InitBoardString /\ [][NextBoardString]_vars

InitMoveString ==
  /\ root = Node_empty
  /\ \/ result = NoResult
     \/ \E s \in MoveStrings : result = Parsed("input", "ok", <<>>, s)
  /\ plies = 0
  /\ expansions = 0

\* m.to_string()
MoveToString(m) ==
  /\ result' = Parsed("Move::to_string", "ok", m, Move_to_string(m))
  /\ UNCHANGED <<root, plies, expansions>>

\* Move::from_string(s) of the string at hand
MoveFromString ==
  /\ result.op \in {"input", "Move::to_string"}
  /\ LET r == Move_from_string(result.output)
     IN result' = Parsed("Move::from_string", IF r.ok THEN "ok" ELSE "err",
                         result.output, r.move)
  /\ UNCHANGED <<root, plies, expansions>>

NextMoveString ==
  \/ \E m \in Moves : MoveToString(m)
  \/ MoveFromString

SpecMoveString == InitMoveString /\ [][NextMoveString]_vars

\* ------------------------------------------------------------ lines of play

\* The placements of one line of play.
MaxPlacements == 3

\* The positions a line of play starts from: those with few empty squares.
PlayBoards ==
  {bs \in InitBoards : get_n_empty_squares(bs[1]) + get_n_empty_squares(bs[2]) <= 3}

\* A step of a line of play: where the line started, the node before the
\* step and the die or move of the step.
Played(op, start, from, arg) ==
  [op |-> op, status |-> "ok", start |-> start, from |-> from, arg |-> arg]

\* The node the line of play started from.
LineStart == IF result.op = "new" THEN root ELSE result.start

InitPlay ==
  /\ \E bs \in PlayBoards, player \in Players :
        root = Node_new(bs[1], bs[2], NodeType_Roll(player))
  /\ result = NoResult
  /\ plies = 0
  /\ expansions = 0

\* The play loop on a Roll node:
\* game = game.with_rolls(roll).get_child_from_roll(roll)
PlayRoll(roll) ==
  /\ ~is_game_over(root)
  /\ IsRoll(root)
  /\ plies < MaxPlacements
  /\ root' = get_child_from_roll(with_rolls(root, roll).node, roll).node
  /\ result' = Played("roll", LineStart, root, roll)
  /\ UNCHANGED <<plies, expansions>>

\* The play loop on a Move node: game = game.with_move_made(m), m legal.
PlayMove(m) ==
  /\ ~is_game_over(root)
  /\ IsMove(root)
  /\ is_legal_move(root, m)
  /\ root' = Node_with_move_made(root, m).node
  /\ result' = Played("with_move_made", LineStart, root, m)
  /\ plies' = plies + 1
  /\ UNCHANGED expansions

NextPlay ==
  \/ \E roll \in Dice : PlayRoll(roll)
  \/ \E m \in Moves : PlayMove(m)

SpecPlay == InitPlay /\ [][NextPlay]_vars

\* ------------------------------------------- builders on a constructed root

\* root.build_entire_tree_up_to_symmetry() on a root just constructed.  The
\* builder recurses once per level: from a root with a line of play that
\* comes back to a position it does not return ("overflow"); a tree deeper
\* than MaxTreeDepth without such a line is beyond the model ("too_deep").
BuildEntireTree ==
  /\ expansions = 0
  /\ \E status \in {IF Revisits(root, {}, MaxTreeDepth) THEN "overflow"
                    ELSE IF Deeper(root, MaxTreeDepth) THEN "too_deep" ELSE "ok"} :
       /\ root' = IF status = "ok" THEN build_entire_tree_up_to_symmetry(root) ELSE root
       /\ result' = Result("build_entire_tree_up_to_symmetry", status, root, <<>>,
                           root', <<>>, RatInt(0))
  /\ expansions' = expansions + 1
  /\ UNCHANGED plies

\* root.build_n_moves_up_to_symmetry(n) on a root just constructed.
BuildNMovesFresh(n) ==
  /\ expansions = 0
  /\ BuildNMoves(n)

NextBuild ==
  \/ BuildEntireTree
  \/ \E n \in 0..MaxDepth : BuildNMovesFresh(n)

SpecBuild == Init /\ [][NextBuild]_vars

\* ------------------------------------------------- what a placement leaves alone

\* node.get_player_board(player).eliminate(die, column_index), on a node
\* that has no children yet.
Eliminate(player, die, column_index) ==
  /\ is_leaf(root)
  /\ result' = [op |-> "eliminate", status |-> "ok", from |-> root,
                arg |-> [player |-> player, die |-> die, column_index |-> column_index],
                board |-> eliminate(get_player_board(root, player), die, column_index)]
  /\ UNCHANGED <<root, plies, expansions>>

NextFrame ==
  \/ \E m \in Moves : MakeMove(m)
  \/ \E m \in Moves : AddMove(m)
  \/ \E player \in Players, die \in Dice, column_index \in 0..2 :
       Eliminate(player, die, column_index)

SpecFrame == Init /\ [][NextFrame]_vars

\* ------------------------------------------------------------------ claims

\* The negation of a value, and the order of two values.
RatNeg(a) == [inf |-> -a.inf, n |-> -a.n, d |-> a.d]

RatLeq(a, b) == a = b \/ RatLess(a, b)

\* The board of `player` in `node`, and the other player, read off the fields.
BoardFor(node, player) ==
  IF player = "Player1" THEN node.player_1_board ELSE node.player_2_board

Other(player) == IF player = "Player1" THEN "Player2" ELSE "Player1"

Rows == 0..2

Cols == 0..2

\* The square of `board` at (row, col).
At(board, row, col) == board[col + 1][row + 1]

\* The last operation was with_move_made(m) on a Move(p, d) node, m an empty
\* cell of p's board.
C1_Case ==
  /\ result.op = "with_move_made"
  /\ result.from.node_type.tag = "Move"
  /\ At(BoardFor(result.from, result.from.node_type.player),
        result.arg[1], result.arg[2]) = "Empty"

\* C1: with_move_made(m) on a Move(p, d) node, m = (row, col) an empty cell of
\* p's board, succeeds with a Roll(opponent(p)) node whose board for p is the
\* old one with d at (row, col), and whose board for the opponent is the old
\* one with the cells of column col that held d cleared; the opponent's column
\* col holds no d afterwards.
C1_WithMoveMade ==
  C1_Case =>
    LET p == result.from.node_type.player
        d == result.from.node_type.die
        row == result.arg[1]
        col == result.arg[2]
        old_own == BoardFor(result.from, p)
        old_opp == BoardFor(result.from, Other(p))
        new_own == BoardFor(result.node, p)
        new_opp == BoardFor(result.node, Other(p))
    IN /\ result.status = "ok"
       /\ result.node.node_type = [tag |-> "Roll", player |-> Other(p), die |-> "Empty"]
       /\ \A r \in Rows, c \in Cols :
            At(new_own, r, c) = IF r = row /\ c = col THEN d ELSE At(old_own, r, c)
       /\ \A r \in Rows, c \in Cols :
            At(new_opp, r, c) = IF c = col /\ At(old_opp, r, c) = d
                                THEN "Empty" ELSE At(old_opp, r, c)
       /\ \A r \in Rows : At(new_opp, r, col) # d

\* C1 happens with an elimination: the opponent held two dice d in column col.
C1_Witness ==
  /\ C1_Case
  /\ result.status = "ok"
  /\ \E r1, r2 \in Rows :
       /\ r1 # r2
       /\ At(BoardFor(result.from, Other(result.from.node_type.player)), r1, result.arg[2])
            = result.from.node_type.die
       /\ At(BoardFor(result.from, Other(result.from.node_type.player)), r2, result.arg[2])
            = result.from.node_type.die

\* The face of a die, by its place among the six.
FaceOf(die) ==
  CHOOSE k \in 1..6 : <<"One", "Two", "Three", "Four", "Five", "Six">>[k] = die

\* The child a fresh Roll(p) node gets for the face k.
C2_Child(parent, k) ==
  [player_1_board |-> parent.player_1_board,
   player_2_board |-> parent.player_2_board,
   node_type |-> [tag |-> "Move", player |-> parent.node_type.player,
                  die |-> <<"One", "Two", "Three", "Four", "Five", "Six">>[k]],
   children |-> <<>>]

\* C2: expanding a Roll(p) node without children gives exactly six children,
\* the k-th being Move(p, face k) on the parent's two boards;
\* get_child_from_roll(d) on a Roll node with six children returns the child at
\* index d - 1, which is Move(p, d), and it returns an error on a Roll node
\* that does not have six children and on a Move node.
C2_RollChildren ==
  /\ ( /\ result.op \in {"add_rolls", "generate_children_up_to_symmetry"}
       /\ result.from.node_type.tag = "Roll"
       /\ result.from.children = <<>> )
     => /\ result.status = "ok"
        /\ Len(result.node.children) = 6
        /\ \A k \in 1..6 : result.node.children[k] = C2_Child(result.from, k)
        /\ root = result.node
  /\ result.op = "get_child_from_roll"
     => IF result.from.node_type.tag = "Roll" /\ Len(result.from.children) = 6
        THEN /\ result.status = "ok"
             /\ result.node = result.from.children[(FaceOf(result.arg) - 1) + 1]
             /\ result.node.node_type =
                  [tag |-> "Move", player |-> result.from.node_type.player,
                   die |-> result.arg]
        ELSE result.status = "err"

\* C2 happens: a lookup of the face 4 succeeded on an expanded Roll node.
C2_Witness ==
  /\ result.op = "get_child_from_roll"
  /\ result.status = "ok"
  /\ result.arg = "Four"
  /\ Len(root.children) = 6

\* How many squares of `column` hold `die`.
CountIn(column, die) == Cardinality({r \in 1..3 : column[r] = die})

C3_multiplicity(column) ==
  IF \E die \in Dice : CountIn(column, die) = 3 THEN 3
  ELSE IF \E die \in Dice : CountIn(column, die) = 2 THEN 2
  ELSE 1

C3_column_sum(column) ==
    1 * CountIn(column, "One") + 2 * CountIn(column, "Two")
  + 3 * CountIn(column, "Three") + 4 * CountIn(column, "Four")
  + 5 * CountIn(column, "Five") + 6 * CountIn(column, "Six")

C3_score(board) ==
    C3_column_sum(board[1]) * C3_multiplicity(board[1])
  + C3_column_sum(board[2]) * C3_multiplicity(board[2])
  + C3_column_sum(board[3]) * C3_multiplicity(board[3])

\* C3: Board.sum() is the sum over the three columns of (the sum of the die
\* values in the column) x multiplicity, the multiplicity being 3 when the three
\* squares hold the same die, else 2 when any two squares of the column (the
\* top and the bottom one included) hold the same die, else 1.
C3_BoardSum ==
  result.op = "sum"
    => result.evaluation = [inf |-> 0, n |-> C3_score(BoardFor(result.from, result.arg)),
                            d |-> 1]

\* C3 happens on a board with a column whose top and bottom square alone match.
C3_Witness ==
  /\ result.op = "sum"
  /\ \E c \in 1..3 :
       LET column == BoardFor(result.from, result.arg)[c]
       IN column[1] # "Empty" /\ column[1] = column[3] /\ column[2] # column[1]
  /\ result.evaluation.n > 0

\* No square of `board` is empty.
C4_full(board) == \A r \in Rows, c \in Cols : At(board, r, c) # "Empty"

C4_terminal(node) == C4_full(node.player_1_board) \/ C4_full(node.player_2_board)

\* C4: is_game_over() holds iff one of the two boards is full; get_outcome() is
\* InProgress on every node that is not over, whatever the scores, and on a
\* node that is over it is Victory(Player1) when board 1 scores more,
\* Victory(Player2) when board 2 scores more, and Draw when the scores are equal.
C4_Outcome ==
  /\ result.op = "is_game_over" => result.arg = C4_terminal(result.from)
  /\ result.op = "get_outcome"
     => result.arg =
          IF ~C4_terminal(result.from) THEN "InProgress"
          ELSE IF C3_score(result.from.player_1_board) > C3_score(result.from.player_2_board)
               THEN "Victory(Player1)"
          ELSE IF C3_score(result.from.player_2_board) > C3_score(result.from.player_1_board)
               THEN "Victory(Player2)"
          ELSE "Draw"

\* C4 happens: a node that is over only by its second board, the first board
\* scoring more.
C4_Witness ==
  /\ result.op = "get_outcome"
  /\ result.arg = "Victory(Player1)"
  /\ ~C4_full(result.from.player_1_board)
  /\ C4_full(result.from.player_2_board)

\* Every node of the tree under `node`, itself included.
RECURSIVE Subtree(_)
Subtree(node) ==
  {node} \cup UNION {Subtree(node.children[i]) : i \in 1..Len(node.children)}

\* An expanded Move node: a Move node that has children.
ExpandedMove(x) == x.node_type.tag = "Move" /\ x.children # <<>>

\* The empty cells of both boards of `node`.
EmptyCells(node) ==
  Cardinality({<<b, r, c>> \in {1, 2} \X Rows \X Cols :
                 At(IF b = 1 THEN node.player_1_board ELSE node.player_2_board, r, c)
                   = "Empty"})

\* The moves of a Move node up to row symmetry: for each column of the mover's
\* board with an empty cell, in ascending order, its empty cell of smallest row.
PrunedMoves(node) ==
  LET board == BoardFor(node, node.node_type.player)
      open(c) == {r \in Rows : At(board, r, c) = "Empty"}
      first(c) == <<CHOOSE r \in open(c) : \A q \in open(c) : r <= q, c>>
  IN (IF open(0) # {} THEN <<first(0)>> ELSE <<>>)
       \o (IF open(1) # {} THEN <<first(1)>> ELSE <<>>)
       \o (IF open(2) # {} THEN <<first(2)>> ELSE <<>>)

\* The evaluator returns a value for `node` under the objective f.
Evaluates(node, f) == get_next_moves_and_evaluation(node, f).status = "ok"

\* v(node): the value the evaluator returns.
Value(node, f) == get_next_moves_and_evaluation(node, f).evaluation

\* The sum of the values of the first k children of `roll_node`.
RECURSIVE SumOfValues(_, _, _)
SumOfValues(roll_node, f, k) ==
  IF k = 0 THEN [inf |-> 0, n |-> 0, d |-> 1]
  ELSE RatAdd(SumOfValues(roll_node, f, k - 1), Value(roll_node.children[k], f))

\* candidate(m) for the i-th move of `node` up to row symmetry, the child it
\* reaches being the i-th child: f of the child when the child is over, else the
\* mean of the values of the child's children.
Candidate(node, i, f) ==
  LET roll_node == node.children[i]
  IN IF C4_terminal(roll_node)
     THEN objective_function(f, roll_node).value
     ELSE RatDivInt(SumOfValues(roll_node, f, Len(roll_node.children)),
                    Len(roll_node.children))

Candidates(node, f) == {Candidate(node, i, f) : i \in 1..Len(node.children)}

\* The i-th child of `node` is the child its i-th move up to row symmetry reaches.
ChildrenFollowMoves(node) ==
  /\ Len(node.children) = Len(PrunedMoves(node))
  /\ \A i \in 1..Len(node.children) :
       get_child_from_move(node, PrunedMoves(node)[i]).node = node.children[i]

\* What C5 says of the node x under the objective f.
C5_At(x, f) ==
  LET r == get_next_moves_and_evaluation(x, f)
      candidates == Candidates(x, f)
  IN (ExpandedMove(x) /\ r.status = "ok") =>
       /\ ChildrenFollowMoves(x)
       /\ r.evaluation \in candidates
       /\ \A w \in candidates :
            IF x.node_type.player = "Player1"
            THEN RatLeq(w, r.evaluation) ELSE RatLeq(r.evaluation, w)

\* C5_At of every node of the tree under `node`.
RECURSIVE C5_Under(_, _)
C5_Under(node, f) ==
  /\ C5_At(node, f)
  /\ \A i \in 1..Len(node.children) : C5_Under(node.children[i], f)

\* C5: for every expanded Move(p, d) node of a tree built by
\* build_entire_tree_up_to_symmetry or build_n_moves_up_to_symmetry, the
\* evaluation get_next_moves_and_evaluation returns is the largest candidate(m)
\* over the moves up to row symmetry when p is Player1 and the smallest when p is
\* Player2, candidate(m) being the value of the child m reaches.  The trees are
\* those a solve built and evaluated, under the objective of the solve.
C5_MaxMin ==
  (result.op = "solve" /\ result.status = "ok") => C5_Under(result.node, result.arg.f)

\* C5 happens: a Player2 root with two moves of different candidates was solved.
C5_Witness ==
  /\ result.op = "solve"
  /\ result.status = "ok"
  /\ result.node.node_type = [tag |-> "Move", player |-> "Player2", die |-> "Six"]
  /\ Len(result.node.children) >= 2
  /\ Cardinality(Candidates(result.node, result.arg.f)) >= 2
  /\ \E w \in Candidates(result.node, result.arg.f) : RatLess(result.evaluation, w)

\* The moves among the first k up to row symmetry whose candidate is v, in order.
RECURSIVE Tying(_, _, _, _)
Tying(node, f, v, k) ==
  IF k = 0 THEN <<>>
  ELSE Tying(node, f, v, k - 1)
         \o (IF Candidate(node, k, f) = v THEN <<PrunedMoves(node)[k]>> ELSE <<>>)

\* What C6 says of the node x under the objective f (C6_BestMoves takes the
\* trees a solve built and evaluated, under the objective of the solve).
C6_At(x, f) ==
  LET r == get_next_moves_and_evaluation(x, f)
  IN (ExpandedMove(x) /\ r.status = "ok") =>
       /\ r.moves = Tying(x, f, r.evaluation, Len(x.children))
       /\ r.moves # <<>>
       /\ \A i, j \in 1..Len(r.moves) : i < j => r.moves[i][2] < r.moves[j][2]

\* C6_At of every node of the tree under `node`.
RECURSIVE C6_Under(_, _)
C6_Under(node, f) ==
  /\ C6_At(node, f)
  /\ \A i \in 1..Len(node.children) : C6_Under(node.children[i], f)

C7_At(x, f) ==
  (ExpandedMove(x) /\ Evaluates(x, f)) =>
    \A i \in 1..Len(x.children) :
      LET roll_node == x.children[i]
          candidate == AverageLoop(roll_node, f, 1, RatInt(0))
          sum_of_values == SumOfValues(roll_node, f, 6)
      IN ~C4_terminal(roll_node) =>
           /\ Len(roll_node.children) = 6
           /\ \A k \in 1..6 : roll_node.children[k].node_type =
                [tag |-> "Move", player |-> roll_node.node_type.player,
                 die |-> <<"One", "Two", "Three", "Four", "Five", "Six">>[k]]
           /\ candidate.status = "ok"
           /\ RatMul(RatInt(6), candidate.value) = sum_of_values
           /\ candidate.value = RatDivInt(sum_of_values, 6)

\* C7_At of every node of the tree under `node`.
RECURSIVE C7_Under(_, _)
C7_Under(node, f) ==
  /\ C7_At(node, f)
  /\ \A i \in 1..Len(node.children) : C7_Under(node.children[i], f)

\* C7: for every move of an expanded Move node whose Roll child R is not over,
\* candidate(m) is the unweighted mean of the values of R's children, and in a
\* tree the builders made R has exactly six children, one Move node per face, so
\* that 6 x candidate(m) is the sum of the six values.
C7_Mean ==
  (result.op = "solve" /\ result.status = "ok") => C7_Under(result.node, result.arg.f)

\* C7 happens: the brute-force test position whose best move averages four
\* wins, a draw and a loss of Player1 to 1/2.
C7_Witness ==
  /\ result.op = "solve"
  /\ result.status = "ok"
  /\ result.arg.kind = "BruteForce"
  /\ result.evaluation = [inf |-> 0, n |-> 1, d |-> 2]
  /\ \E i \in 1..Len(result.node.children) :
       /\ ~C4_terminal(result.node.children[i])
       /\ {Value(result.node.children[i].children[k], "outcome") : k \in 1..6}
            = {RatInt(1), RatInt(0), RatInt(-1)}

\* The nodes of the tree under `node` that have no children.
Leaves(node) == {x \in Subtree(node) : x.children = <<>>}

\* The value of a node that is over, from the two scores.
C8_value(node) ==
  IF C3_score(node.player_1_board) > C3_score(node.player_2_board) THEN RatInt(1)
  ELSE IF C3_score(node.player_2_board) > C3_score(node.player_1_board) THEN RatInt(-1)
  ELSE RatInt(0)

\* Every line of play of the tree under `node` ends in a node that is over and
\* has the value v.
C8_EveryLineEnds(node, v) ==
  \A x \in Leaves(node) : C4_terminal(x) /\ C8_value(x) = v

\* A brute-force solve of a Move root that returned.
C8_Case ==
  /\ result.op = "solve"
  /\ result.arg.kind = "BruteForce"
  /\ result.from.node_type.tag = "Move"
  /\ result.status = "ok"

\* What C8 says of leaves, of the range of the evaluation and of its example.
C8_LeavesAndRange ==
  C8_Case =>
    /\ \A x \in Leaves(result.node) :
         /\ C4_terminal(x)
         /\ objective_function(ObjOutcome, x) = [status |-> "ok", value |-> C8_value(x)]
    /\ RatLeq(RatInt(-1), result.evaluation)
    /\ RatLeq(result.evaluation, RatInt(1))
    /\ ( /\ result.from.player_1_board = BoardOf(<<2,5,5>>, <<1,0,2>>, <<3,5,2>>)
         /\ result.from.player_2_board = BoardOf(<<1,5,0>>, <<3,3,3>>, <<1,2,0>>)
         /\ result.from.node_type = [tag |-> "Move", player |-> "Player1", die |-> "Six"] )
       => /\ result.moves = << <<1, 1>> >>
          /\ result.evaluation = RatInt(1)

\* C8 as stated: in BruteForce mode every leaf is worth +1, 0 or -1 by its
\* outcome and the evaluation of a Move root lies in [-1, +1]; when every line of
\* play ends in a win of Player1 the evaluation is 1 and the best-move list is
\* not empty, and -1 with a non-empty list when every line ends in a win of
\* Player2.
C8_ForcedWin ==
  /\ C8_LeavesAndRange
  /\ C8_Case =>
       /\ C8_EveryLineEnds(result.node, RatInt(1))
            => result.evaluation = RatInt(1) /\ result.moves # <<>>
       /\ C8_EveryLineEnds(result.node, RatInt(-1))
            => result.evaluation = RatInt(-1) /\ result.moves # <<>>

\* C8, amended: as C8_ForcedWin, the best-move list being non-empty when the
\* root is not itself over; a root that is over is its own only leaf, its
\* evaluation is the value of its outcome and its best-move list is empty.
C8_ForcedWinInProgress ==
  /\ C8_LeavesAndRange
  /\ C8_Case =>
       /\ C8_EveryLineEnds(result.node, RatInt(1))
            => /\ result.evaluation = RatInt(1)
               /\ ~C4_terminal(result.from) => result.moves # <<>>
       /\ C8_EveryLineEnds(result.node, RatInt(-1))
            => /\ result.evaluation = RatInt(-1)
               /\ ~C4_terminal(result.from) => result.moves # <<>>
       /\ C4_terminal(result.from)
            => /\ result.evaluation = C8_value(result.from)
               /\ result.moves = <<>>
               /\ result.node = result.from

\* C8 happens: a root in progress all of whose lines of play end in a win of
\* Player1, solved by brute force.
C8_Witness ==
  /\ C8_Case
  /\ ~C4_terminal(result.from)
  /\ C8_EveryLineEnds(result.node, RatInt(1))
  /\ result.evaluation = RatInt(1)
  /\ result.moves = << <<1, 1>> >>

\* The evaluator returns an error for every Roll node of the tree the solver
\* built, whatever the objective.
C9_EvaluatorRejects ==
  result.op = "solve" =>
    \A x \in Subtree(result.node) : \A f \in Objectives :
      x.node_type.tag = "Roll" => get_next_moves_and_evaluation(x, f).status = "err"

\* C9 as stated: the solver asked, in any mode, to evaluate a Roll root returns
\* an error value, neither a result nor a panic nor no return at all, and the
\* evaluator returns an error for every Roll node.
C9_RollRoot ==
  /\ (result.op = "solve" /\ result.from.node_type.tag = "Roll")
       => /\ result.status = "err"
          /\ result.moves = <<>>
  /\ C9_EvaluatorRejects

\* The part of C9 that holds: whenever the call on a Roll root returns, it
\* returns an error.
C9_RollRootWhenBuilt ==
  /\ (result.op = "solve" /\ result.from.node_type.tag = "Roll"
        /\ result.status \notin {"overflow", "too_deep"})
       => /\ result.status = "err"
          /\ result.moves = <<>>
  /\ C9_EvaluatorRejects

\* What the solver returns for the root of `result` in another mode.
C10_In(solver_mode) == get_best_moves_and_evaluation(result.from, solver_mode)

\* The result of the last solve is that of the solve `other`.
C10_Same(other) ==
  /\ result.status = other.status
  /\ result.moves = other.moves
  /\ result.evaluation = other.evaluation
  /\ result.node = other.root

\* C10: in Hybrid(max_brute, (depth, f)) mode the solver's best moves and
\* evaluation are those of BruteForce on the same root when the empty cells of
\* both boards of the root number at most max_brute, and those of
\* Heuristic(depth, f) on the same root when they number more.
C10_Hybrid ==
  (result.op = "solve" /\ result.arg.kind = "Hybrid") =>
    IF EmptyCells(result.from) <= result.arg.max_brute
    THEN C10_Same(C10_In(ModeBruteForce))
    ELSE C10_Same(C10_In(ModeHeuristic(result.arg.depth, result.arg.f)))

\* C10 happens: a Hybrid solve of a root with exactly max_brute empty cells that
\* returned the brute-force result, the heuristic one being another.
C10_Witness ==
  /\ result.op = "solve"
  /\ result.arg.kind = "Hybrid"
  /\ result.status = "ok"
  /\ result.from.node_type.tag = "Move"
  /\ ~C4_terminal(result.from)
  /\ EmptyCells(result.from) = result.arg.max_brute
  /\ result.evaluation = C10_In(ModeBruteForce).evaluation
  /\ result.evaluation # C10_In(ModeHeuristic(result.arg.depth, result.arg.f)).evaluation

\* The number of empty cells of `board`.
EmptyOf(board) ==
  Cardinality({<<r, c>> \in Rows \X Cols : At(board, r, c) = "Empty"})

\* The tempo count of C11 for a node in progress.
C11_raw(node) ==
  LET e1 == EmptyOf(node.player_1_board)
      e2 == EmptyOf(node.player_2_board)
      active == node.node_type.player
      finishing_first == IF e1 > e2 THEN "Player2"
                         ELSE IF e1 < e2 THEN "Player1" ELSE active
      bonus == IF active = finishing_first THEN 1 ELSE -1
  IN IF finishing_first = "Player1" THEN e2 - e1 + bonus ELSE -(e1 - e2 + bonus)

\* C11: difference_heuristic(node, k) is diff = score(board1) - score(board2)
\* on a node that is over, whatever k, and diff + k * raw on any other node, raw
\* being (e2 - e1 + bonus) when Player1 finishes first and -(e1 - e2 + bonus)
\* when Player2 does; the player with fewer empty cells finishes first, the
\* active player on equal counts, and bonus is +1 when the active player
\* finishes first and -1 otherwise.
C11_DifferenceHeuristic ==
  result.op = "difference_heuristic" =>
    LET diff == C3_score(result.from.player_1_board) - C3_score(result.from.player_2_board)
    IN result.evaluation =
         IF C4_terminal(result.from) THEN RatInt(diff)
         ELSE RatAdd(RatInt(diff), RatMul(result.arg, RatInt(C11_raw(result.from))))

\* C11 happens: the heuristic with fill 3.5 of a node in progress where
\* Player1 has fewer empty cells and Player2 is to play, so that the bonus is
\* -1 and the value is diff + 3.5 * (e2 - e1 - 1).
C11_Witness ==
  /\ result.op = "difference_heuristic"
  /\ result.arg = [inf |-> 0, n |-> 7, d |-> 2]
  /\ ~C4_terminal(result.from)
  /\ EmptyOf(result.from.player_1_board) < EmptyOf(result.from.player_2_board)
  /\ result.from.node_type.player = "Player2"
  /\ C11_raw(result.from) = EmptyOf(result.from.player_2_board)
                              - EmptyOf(result.from.player_1_board) - 1
  /\ result.evaluation = RatAdd(RatInt(C3_score(result.from.player_1_board)
                                        - C3_score(result.from.player_2_board)),
                                RatMul(Rat(7, 2), RatInt(C11_raw(result.from))))


\* The elements of the sequence s.
Range(s) == {s[i] : i \in 1..Len(s)}

\* The moves onto an empty cell of the mover's board of the Move node `node`.
LegalMoves(node) ==
  {<<r, c>> \in Rows \X Cols :
     At(BoardFor(node, node.node_type.player), r, c) = "Empty"}

\* Every child of `node` is a leaf.
OneLevel(node) == \A i \in 1..Len(node.children) : node.children[i].children = <<>>

\* A child lookup on a Move node that has children.
C12_Case == result.op = "get_child_from_move" /\ ExpandedMove(result.from)

\* C12 as stated: on an expanded Move node n the lookup get_child_from_move(m)
\* succeeds for every legal move m, every empty cell of the mover's board, and
\* returns a node equal to n.with_move_made(m).
C12_EveryLegalMove ==
  (C12_Case /\ result.arg \in LegalMoves(result.from))
    => /\ result.status = "ok"
       /\ result.node = Node_with_move_made(result.from, result.arg).node

\* C12: on a Move node n expanded by generate_children_up_to_symmetry or
\* build_n_moves_up_to_symmetry the lookup get_child_from_move(m) succeeds for
\* every move m of get_legal_moves_up_to_row_symmetry and returns a node with
\* the boards and the kind of n.with_move_made(m), equal to it when the
\* children of n are leaves; for a legal move that is not among them, and for
\* a cell that is taken, it returns an error.
C12_PrunedMoves ==
  C12_Case =>
    LET n == result.from
        m == result.arg
        made == Node_with_move_made(n, m).node
    IN /\ m \in Range(PrunedMoves(n)) =>
            /\ result.status = "ok"
            /\ result.node.player_1_board = made.player_1_board
            /\ result.node.player_2_board = made.player_2_board
            /\ result.node.node_type = made.node_type
            /\ OneLevel(n) => result.node = made
       /\ m \notin Range(PrunedMoves(n)) => result.status = "err"

\* C12 happens: the lookup of the move (1, 1) on 256/1_2/62_ to move for
\* Player2 with 6, after generate_children_up_to_symmetry, finds the child
\* with the board 256/162/62_.
C12_Witness ==
  /\ C12_Case
  /\ OneLevel(result.from)
  /\ result.from.node_type.player = "Player2"
  /\ result.arg = <<1, 1>>
  /\ result.arg \in Range(PrunedMoves(result.from))
  /\ result.status = "ok"
  /\ At(result.from.player_2_board, 1, 1) = "Empty"
  /\ At(result.node.player_2_board, 1, 1) = "Six"
  /\ result.node = Node_with_move_made(result.from, result.arg).node

\* The list `moves` holds each empty cell of `board` once and nothing else.
C13_EachOnce(board, moves) ==
  \A cell \in Rows \X Cols :
    Cardinality({i \in 1..Len(moves) : moves[i] = cell})
      = IF At(board, cell[1], cell[2]) = "Empty" THEN 1 ELSE 0

\* C13 as stated: get_empty_squares lists each empty (row, column) pair once,
\* in column-major order: column 0 for rows 0..2, then column 1, then column 2.
C13_ColumnMajor ==
  result.op = "get_empty_squares" =>
    /\ C13_EachOnce(BoardFor(result.from, result.arg), result.moves)
    /\ \A i, j \in 1..Len(result.moves) :
         i < j => \/ result.moves[i][2] < result.moves[j][2]
                  \/ /\ result.moves[i][2] = result.moves[j][2]
                     /\ result.moves[i][1] < result.moves[j][1]

\* C13: get_empty_squares lists each empty (row, column) pair once, in
\* row-major order: row 0 for columns 0..2, then row 1, then row 2.
C13_RowMajor ==
  result.op = "get_empty_squares" =>
    /\ C13_EachOnce(BoardFor(result.from, result.arg), result.moves)
    /\ \A i, j \in 1..Len(result.moves) :
         i < j => \/ result.moves[i][1] < result.moves[j][1]
                  \/ /\ result.moves[i][1] = result.moves[j][1]
                     /\ result.moves[i][2] < result.moves[j][2]

\* C13 happens: a board whose empty squares, listed, start with (0, 1),
\* (1, 0): the one of the smaller row comes before the one of the smaller
\* column.
C13_Witness ==
  /\ result.op = "get_empty_squares"
  /\ Len(result.moves) >= 2
  /\ result.moves[1] = <<0, 1>>
  /\ result.moves[2] = <<1, 0>>
  /\ At(BoardFor(result.from, result.arg), 0, 1) = "Empty"
  /\ At(BoardFor(result.from, result.arg), 1, 0) = "Empty"
  /\ At(BoardFor(result.from, result.arg), 0, 0) # "Empty"

\* The columns of the mover's board of the Move node `node` with an empty cell.
OpenColumns(node) ==
  {c \in Cols : \E r \in Rows : At(BoardFor(node, node.node_type.player), r, c) = "Empty"}

\* C14: on a Move node get_legal_moves_up_to_row_symmetry returns, by ascending
\* column, one move per column of the mover's board with an empty cell, that
\* column's empty cell of smallest row; the number of these moves, and of the
\* children generate_children_up_to_symmetry gives a Move node without
\* children, is the number of columns with an empty cell, at most 3.
C14_PrunedMoves ==
  /\ (result.op = "get_legal_moves_up_to_row_symmetry" /\ result.from.node_type.tag = "Move")
       => LET board == BoardFor(result.from, result.from.node_type.player)
              moves == result.moves
          IN /\ result.status = "ok"
             /\ \A i, j \in 1..Len(moves) : i < j => moves[i][2] < moves[j][2]
             /\ {moves[i][2] : i \in 1..Len(moves)} = OpenColumns(result.from)
             /\ \A i \in 1..Len(moves) :
                  /\ moves[i][1] \in Rows
                  /\ At(board, moves[i][1], moves[i][2]) = "Empty"
                  /\ \A r \in Rows : r < moves[i][1] => At(board, r, moves[i][2]) # "Empty"
             /\ Len(moves) = Cardinality(OpenColumns(result.from))
             /\ Len(moves) <= 3
  /\ (/\ result.op = "generate_children_up_to_symmetry"
      /\ result.from.node_type.tag = "Move"
      /\ result.from.children = <<>>)
       => /\ Len(result.node.children) = Cardinality(OpenColumns(result.from))
          /\ Len(result.node.children) <= 3

\* C14 happens: the pruned moves of a Move node whose mover has a column
\* without empty cell and a column whose first row is taken are asked for.
C14_Witness ==
  /\ result.op = "get_legal_moves_up_to_row_symmetry"
  /\ result.from.node_type.tag = "Move"
  /\ result.status = "ok"
  /\ Cardinality(OpenColumns(result.from)) = 2
  /\ Len(result.moves) = 2
  /\ \E i \in 1..2 : result.moves[i][1] > 0

\* C14 happens for the children: a Move node without children, whose mover
\* has one column with an empty cell, has one child after
\* generate_children_up_to_symmetry.
C14_WitnessChildren ==
  /\ result.op = "generate_children_up_to_symmetry"
  /\ result.from.node_type.tag = "Move"
  /\ result.from.children = <<>>
  /\ Cardinality(OpenColumns(result.from)) = 1
  /\ Len(result.node.children) = 1

\* The permutations of the three rows.
RowPermutations == {p \in [1..3 -> 1..3] : \A i, j \in 1..3 : p[i] = p[j] => i = j}

\* `board` with the rows of column `col` permuted by p.
PermuteColumn(board, col, p) ==
  [board EXCEPT ![col + 1] = <<board[col + 1][p[1]], board[col + 1][p[2]],
                               board[col + 1][p[3]]>>]

\* The boards `board` becomes by a permutation of the rows within one column.
RowPermuted(board) ==
  {PermuteColumn(board, col, p) : col \in Cols, p \in RowPermutations}

\* C15: a permutation of the three rows within one column of a board leaves
\* sum(), the multiplicity of that column, is_full() and the number of empty
\* cells as they are.
C15_RowSymmetry ==
  /\ result.op = "sum" =>
       \A b \in RowPermuted(BoardFor(result.from, result.arg)) :
         RatInt(sum(b)) = result.evaluation
  /\ result.op = "get_column_multiplicity" =>
       \A p \in RowPermutations :
         RatInt(get_column_multiplicity(
                  PermuteColumn(BoardFor(result.from, result.arg.player),
                                result.arg.column_index, p),
                  result.arg.column_index)) = result.evaluation
  /\ result.op = "is_full" =>
       \A b \in RowPermuted(BoardFor(result.from, result.arg.player)) :
         is_full(b) = result.arg.full
  /\ result.op = "get_n_empty_squares" =>
       \A b \in RowPermuted(BoardFor(result.from, result.arg)) :
         RatInt(get_n_empty_squares(b)) = result.evaluation

\* C15 happens: the multiplicity of a column holding a die, another die and
\* the first die again, which is 2 as for the column with the pair on top.
C15_Witness ==
  /\ result.op = "get_column_multiplicity"
  /\ result.evaluation = [inf |-> 0, n |-> 2, d |-> 1]
  /\ LET column == BoardFor(result.from, result.arg.player)[result.arg.column_index + 1]
     IN /\ column[1] = column[3]
        /\ column[1] # column[2]
        /\ column[2] # "Empty"
        /\ \E b \in RowPermuted(BoardFor(result.from, result.arg.player)) :
             /\ b[result.arg.column_index + 1][1] = b[result.arg.column_index + 1][2]
             /\ b # BoardFor(result.from, result.arg.player)

\* `node` is a Move node and the cell m of its mover's board is empty.
C16_Legal(node, m) ==
  /\ node.node_type.tag = "Move"
  /\ At(BoardFor(node, node.node_type.player), m[1], m[2]) = "Empty"

\* C16: with_move_made(m) and add_move(m) succeed exactly when the node is a
\* Move node and the cell m of the mover's board is empty; on a taken cell and
\* on a Roll node they return an error and leave the boards, the node and its
\* children as they were. get_legal_moves and
\* get_legal_moves_up_to_row_symmetry return an error on a Roll node, and
\* add_rolls returns an error on a Move node and adds no child.
C16_Errors ==
  /\ result.op \in {"with_move_made", "add_move"} =>
       /\ result.status \in {"ok", "err"}
       /\ result.status = "ok" <=> C16_Legal(result.from, result.arg)
       /\ result.status = "err" => root = result.from /\ result.node = result.from
       /\ (result.op = "add_move" /\ result.status = "ok") =>
            /\ Len(root.children) = Len(result.from.children) + 1
            /\ root.player_1_board = result.from.player_1_board
            /\ root.player_2_board = result.from.player_2_board
  /\ result.op \in {"get_legal_moves", "get_legal_moves_up_to_row_symmetry"} =>
       /\ result.status = "err" <=> result.from.node_type.tag = "Roll"
       /\ root = result.from
  /\ (result.op = "add_rolls" /\ result.from.node_type.tag = "Move") =>
       /\ result.status = "err"
       /\ root = result.from

\* C16 happens: add_move onto a taken cell of a Move node that has a child
\* returns an error and the node keeps its one child.
C16_Witness ==
  /\ result.op = "add_move"
  /\ result.from.node_type.tag = "Move"
  /\ At(BoardFor(result.from, result.from.node_type.player), result.arg[1], result.arg[2])
       # "Empty"
  /\ result.status = "err"
  /\ Len(result.from.children) = 1
  /\ root = result.from

\* C16 happens on a Roll node: with_move_made returns an error.
C16_WitnessRoll ==
  /\ result.op = "with_move_made"
  /\ result.from.node_type.tag = "Roll"
  /\ result.status = "err"
  /\ root = result.from

\* The character a square is written as.
CharOf(square) ==
  CASE square = "Empty" -> "_"
    [] square = "One" -> "1"
    [] square = "Two" -> "2"
    [] square = "Three" -> "3"
    [] square = "Four" -> "4"
    [] square = "Five" -> "5"
    [] square = "Six" -> "6"

\* C17: B.to_string() is three lines of three characters, row 0 the top line
\* and column 0 the leftmost character, and Board::from_string(B.to_string())
\* succeeds and equals B, also for a board B that with_move_made gave.
C17_BoardRoundTrip ==
  /\ result.op = "Board::to_string" =>
       /\ Len(result.output) = 11
       /\ result.output[4] = "\n" /\ result.output[8] = "\n"
       /\ \A r \in Rows, c \in Cols :
            result.output[4 * r + c + 1] = CharOf(At(result.input, r, c))
  /\ (/\ result.op = "Board::from_string"
      /\ result.input = Board_to_string(root.player_1_board))
       => /\ result.status = "ok"
          /\ result.output = root.player_1_board

\* C17 happens: the text of a board that with_move_made gave, different from
\* its transpose, is parsed back to the board.
C17_Witness ==
  /\ result.op = "Board::from_string"
  /\ plies = 1
  /\ result.input = Board_to_string(root.player_1_board)
  /\ result.status = "ok"
  /\ result.output = root.player_1_board
  /\ At(root.player_1_board, 0, 1) # At(root.player_1_board, 1, 0)
  /\ \E r \in Rows, c \in Cols : At(root.player_1_board, r, c) \notin {"Empty", "Three"}

\* The text of a move is at hand or has been parsed.
C18_Case ==
  /\ result.op = "Move::from_string"
  /\ \E m \in Rows \X Cols : result.input = Move_to_string(m)

\* C18 as stated: for every move M with row and column in 0..2,
\* Move::from_string(M.to_string()) succeeds and equals M.
C18_MoveRoundTrip ==
  C18_Case =>
    /\ result.status = "ok"
    /\ result.input = Move_to_string(result.output)

\* What Move::from_string does: it succeeds exactly on the strings that,
\* whitespace aside, are a row digit 0..2 followed by a column digit 0..2,
\* and returns that row and column; M.to_string() is "(row, column)", of six
\* characters, and is refused.
C18_TwoDigits ==
  /\ result.op = "Move::from_string" =>
       LET digits == SelectSeq(result.input, LAMBDA c : c \notin {" ", "\t", "\n"})
           value(c) == CHOOSE k \in 0..2 : <<"0", "1", "2">>[k + 1] = c
       IN IF Len(digits) = 2 /\ digits[1] \in {"0", "1", "2"} /\ digits[2] \in {"0", "1", "2"}
          THEN /\ result.status = "ok"
               /\ result.output = <<value(digits[1]), value(digits[2])>>
          ELSE result.status = "err"
  /\ result.op = "Move::to_string" =>
       /\ Len(result.output) = 6
       /\ result.output[1] = "(" /\ result.output[3] = "," /\ result.output[4] = " "
       /\ result.output[6] = ")"
  /\ C18_Case => result.status = "err"

\* The text of a move has been parsed, and refused.
C18_Refused == C18_Case /\ result.status = "err"

\* The string s, spaces and tabs aside, is three lines of three squares.
C19_WellShaped(s) ==
  LET t == SelectSeq(s, LAMBDA c : c \notin {" ", "\t"})
  IN /\ Len(t) = 11
     /\ \A i \in 1..11 :
          IF i \in {4, 8} THEN t[i] = "\n"
          ELSE t[i] \in {"_", "1", "2", "3", "4", "5", "6"}

\* C19 as stated: Board::from_string accepts a string only if, spaces and tabs
\* aside, it is three lines of three characters, each '_' or '1'..'6'; any
\* other string is rejected with an error, and it never panics.
C19_RejectsMalformed ==
  result.op = "Board::from_string" =>
    /\ result.status # "panic"
    /\ result.status = "ok" => C19_WellShaped(result.input)
    /\ ~C19_WellShaped(result.input) => result.status = "err"

\* What Board::from_string does: it returns an error exactly when it meets a
\* character that is no square before it has met a square in a fourth column
\* or a fourth row; a string of fewer or shorter lines is accepted, the
\* squares not written staying empty; a square in a fourth column or row
\* ends in a panic.
C19_Parses ==
  result.op = "Board::from_string" =>
    LET t == SelectSeq(result.input, LAMBDA c : c \notin {" ", "\t"})
        row(i) == Cardinality({j \in 1..(i - 1) : t[j] = "\n"})
        col(i) == Cardinality({j \in 1..(i - 1) : \A k \in j..(i - 1) : t[k] # "\n"})
        bad(i) == t[i] \notin {"_", "1", "2", "3", "4", "5", "6", "\n"}
        outside(i) == t[i] # "\n" /\ ~bad(i) /\ (row(i) > 2 \/ col(i) > 2)
        stops == {i \in 1..Len(t) : bad(i) \/ outside(i)}
        first == CHOOSE i \in stops : \A j \in stops : i <= j
    IN /\ result.status = IF stops = {} THEN "ok"
                          ELSE IF bad(first) THEN "err" ELSE "panic"
       /\ result.status = "ok" =>
            \A r \in Rows, c \in Cols :
              IF \E i \in 1..Len(t) : t[i] # "\n" /\ row(i) = r /\ col(i) = c
              THEN \E i \in 1..Len(t) :
                     /\ t[i] # "\n" /\ row(i) = r /\ col(i) = c
                     /\ CharOf(At(result.output, r, c)) = t[i]
              ELSE At(result.output, r, c) = "Empty"

\* A string of one line of four squares is parsed, and the fourth is written
\* outside the board.
C19_Panics ==
  /\ result.op = "Board::from_string"
  /\ result.input = <<"3", "3", "3", "3">>
  /\ result.status = "panic"

\* A string of a single square is parsed, and accepted.
C19_AcceptsShort ==
  /\ result.op = "Board::from_string"
  /\ result.input = <<"3">>
  /\ result.status = "ok"

\* Some node under `node` without children is in progress.
C20_InProgressLeaf(node) ==
  \E x \in Subtree(node) : x.children = <<>> /\ ~C4_terminal(x)

\* The evaluator has run with the objective of brute force on a Move node
\* whose tree has a leaf in progress.
C20_Case ==
  /\ result.op = "get_next_moves_and_evaluation"
  /\ result.arg = "outcome"
  /\ result.from.node_type.tag = "Move"
  /\ C20_InProgressLeaf(result.from)

\* C20 as stated: the evaluator run with the objective of brute force (+1, 0,
\* -1 by outcome) on a tree with a leaf in progress returns an error to its
\* caller and does not panic.
C20_ErrorValue == C20_Case => result.status = "err"

\* What the evaluator does in that case: it never returns an error; it
\* panics when it asks the objective for the value of a Move leaf in
\* progress, and returns Ok when it does not come to one.
C20_NoErrorValue == C20_Case => result.status \in {"panic", "ok"}

\* The evaluator panics on a Move node in progress without children.
C20_Panics ==
  /\ C20_Case
  /\ result.from.children = <<>>
  /\ result.status = "panic"

\* The evaluator returns the evaluation 0 for a Move node whose children are
\* Roll nodes in progress without children.
C20_Silent ==
  /\ C20_Case
  /\ result.from.children # <<>>
  /\ \A i \in 1..Len(result.from.children) :
       /\ result.from.children[i].children = <<>>
       /\ ~C4_terminal(result.from.children[i])
  /\ result.status = "ok"
  /\ result.evaluation = [inf |-> 0, n |-> 0, d |-> 1]

\* How many cells of column col of `board` hold `die`.
C21_Held(board, col, die) == Cardinality({r \in Rows : At(board, r, col) = die})

C21_LongLine ==
  /\ result.op = "with_move_made"
  /\ plies = EmptyCells(result.start)
  /\ ~C4_terminal(root)

\* What C22 says of the node x and of every node under it.
RECURSIVE C22_Under(_)
C22_Under(x) ==
  /\ x.children = <<>> <=> C4_terminal(x)
  /\ (x.node_type.tag = "Roll" /\ ~C4_terminal(x)) =>
       /\ Len(x.children) = 6
       /\ \A k \in 1..6 : [x.children[k] EXCEPT !.children = <<>>] = C2_Child(x, k)
  /\ (x.node_type.tag = "Move" /\ ~C4_terminal(x)) =>
       /\ Len(x.children) = Len(PrunedMoves(x))
       /\ \A i \in 1..Len(x.children) :
            [x.children[i] EXCEPT !.children = <<>>]
              = Node_with_move_made(x, PrunedMoves(x)[i]).node
  /\ \A i \in 1..Len(x.children) : C22_Under(x.children[i])

\* C22: in the tree build_entire_tree_up_to_symmetry leaves on a root just
\* constructed a node has no children iff a board of it is full, a Roll node
\* in progress has six children, one per face, and a Move node in progress
\* one child per move up to row symmetry; a root that is over stays without
\* children.
C22_EntireTree ==
  (result.op = "build_entire_tree_up_to_symmetry" /\ result.status = "ok") =>
    /\ C22_Under(root)
    /\ Position(root) = Position(result.from)
    /\ C4_terminal(result.from) => root = result.from

\* C22 happens: the whole tree of a root in progress, of four levels, with a
\* Move node of two children or more.
C22_Witness ==
  /\ result.op = "build_entire_tree_up_to_symmetry"
  /\ result.status = "ok"
  /\ ~C4_terminal(result.from)
  /\ get_max_depth(root) >= 4
  /\ \E x \in Subtree(root) : x.node_type.tag = "Move" /\ Len(x.children) >= 2

\* What C23 says of the node x, with `left` placements of the budget left,
\* and of every node under it.
RECURSIVE C23_Under(_, _)
C23_Under(x, left) ==
  /\ x.children = <<>> =>
       \/ C4_terminal(x)
       \/ x.node_type.tag = "Move" /\ left = 0
  /\ x.children # <<>> =>
       /\ ~C4_terminal(x)
       /\ x.node_type.tag = "Move" => left > 0
       /\ \A i \in 1..Len(x.children) :
            C23_Under(x.children[i],
                      IF x.node_type.tag = "Move" THEN left - 1 ELSE left)

\* C23: in the tree build_n_moves_up_to_symmetry(n) leaves on a root just
\* constructed every leaf is a node that is over or a Move node n placements
\* below the root, no Roll node in progress is a leaf, a Move root stays
\* without children for n = 0, and get_max_depth is at most 2n + 1 for a Move
\* root and 2n + 2 for a Roll root.
C23_NMoves ==
  (result.op = "build_n_moves_up_to_symmetry" /\ result.from.children = <<>>) =>
    /\ C23_Under(root, result.arg)
    /\ Position(root) = Position(result.from)
    /\ (result.from.node_type.tag = "Move" /\ result.arg = 0) => root = result.from
    /\ get_max_depth(root) <= IF result.from.node_type.tag = "Move"
                              THEN 2 * result.arg + 1 ELSE 2 * result.arg + 2

\* C23 happens: a Roll root built one move deep has four levels, its leaves
\* Move nodes in progress one placement below it.
C23_Witness ==
  /\ result.op = "build_n_moves_up_to_symmetry"
  /\ result.from.children = <<>>
  /\ result.arg = 1
  /\ result.from.node_type.tag = "Roll"
  /\ get_max_depth(root) = 4
  /\ \E x \in Leaves(root) : x.node_type.tag = "Move" /\ ~C4_terminal(x)

\* Every line of play from `node`, with any dice and any empty cell, is over
\* within n placements.
RECURSIVE C24_OverWithin(_, _)
C24_OverWithin(node, n) ==
  \/ C4_terminal(node)
  \/ /\ node.node_type.tag = "Roll"
     /\ \A k \in 1..6 : C24_OverWithin(C2_Child(node, k), n)
  \/ /\ node.node_type.tag = "Move"
     /\ n > 0
     /\ \A m \in LegalMoves(node) :
          C24_OverWithin(Node_with_move_made(node, m).node, n - 1)

\* A root just constructed, in progress, has been built n moves deep and
\* every line of play from it is over within n placements.
C24_Case ==
  /\ result.op = "build_n_moves_up_to_symmetry"
  /\ result.from.children = <<>>
  /\ ~C4_terminal(result.from)
  /\ C24_OverWithin(result.from, result.arg)

\* C24: from a root whose every line of play is over within n placements
\* build_n_moves_up_to_symmetry(n) gives the tree that
\* build_entire_tree_up_to_symmetry gives.
C24_SameTree ==
  C24_Case =>
    /\ root = build_entire_tree_up_to_symmetry(result.from)
    /\ \A x \in Leaves(root) : C4_terminal(x)

\* C24 happens: a Roll root in progress whose lines of play all end with the
\* first placement, built one move deep.
C24_Witness ==
  /\ C24_Case
  /\ result.arg = 1
  /\ result.from.node_type.tag = "Roll"
  /\ get_max_depth(root) = 3
  /\ root = build_entire_tree_up_to_symmetry(result.from)

\* generate_children_up_to_symmetry has been called on a node that had
\* children already.
C25_Case ==
  /\ result.op = "generate_children_up_to_symmetry"
  /\ result.from.children # <<>>

\* C25: expanding a node that is expanded already changes nothing: no child
\* is altered and none is added.
C25_Idempotent == C25_Case => root = result.from

\* What the code does instead: the children are pushed once more behind the
\* ones already there, which stay as they were.
C25_PushedAgain ==
  C25_Case =>
    /\ Len(root.children) > Len(result.from.children)
    /\ root.children =
         result.from.children
           \o generate_children_up_to_symmetry(
                [result.from EXCEPT !.children = <<>>]).children

\* A Roll node expanded twice holds twelve children, every face twice.
C25_Twelve ==
  /\ C25_Case
  /\ result.from.node_type.tag = "Roll"
  /\ Len(result.from.children) = 6
  /\ Len(root.children) = 12
  /\ \A i \in 1..6 : root.children[i + 6] = root.children[i]

\* A placement that succeeded: with_move_made(m) on a Move node.
C26_Placed ==
  /\ result.op = "with_move_made"
  /\ result.status = "ok"

\* A child pushed by add_move(m) on a Move node.
C26_Added ==
  /\ result.op = "add_move"
  /\ result.status = "ok"

\* The frame of a placement of d at (row, col) by p, from `parent` to `child`.
C26_Frame(parent, child, m) ==
  LET p == parent.node_type.player
      d == parent.node_type.die
      row == m[1]
      col == m[2]
      old_own == BoardFor(parent, p)
      old_opp == BoardFor(parent, Other(p))
      new_own == BoardFor(child, p)
      new_opp == BoardFor(child, Other(p))
  IN /\ \A r \in Rows, c \in Cols :
          (r # row \/ c # col) => At(new_own, r, c) = At(old_own, r, c)
     /\ \A r \in Rows, c \in Cols :
          c # col => At(new_opp, r, c) = At(old_opp, r, c)
     /\ \A r \in Rows :
          At(old_opp, r, col) # d => At(new_opp, r, col) = At(old_opp, r, col)

\* C26: a placement of d at (row, col) by p changes no other cell of p's
\* board, the dice d p holds in column col included, no cell of the
\* opponent's board outside column col and no cell of the opponent's column
\* col that holds another die or is empty; eliminate on a column without the
\* die returns an equal board; the parent keeps its boards when the child is
\* pushed.
C26_PlacementFrame ==
  /\ C26_Placed => C26_Frame(result.from, result.node, result.arg)
  /\ C26_Added =>
       /\ root.player_1_board = result.from.player_1_board
       /\ root.player_2_board = result.from.player_2_board
       /\ root.node_type = result.from.node_type
       /\ C26_Frame(root, root.children[Len(root.children)], result.arg)
  /\ result.op = "eliminate" =>
       LET board == get_player_board(result.from, result.arg.player)
       IN /\ (\A r \in Rows : At(board, r, result.arg.column_index) # result.arg.die)
               => result.board = board
          /\ \A r \in Rows, c \in Cols :
               At(board, r, c) # result.arg.die \/ c # result.arg.column_index
                 => At(result.board, r, c) = At(board, r, c)

\* C26 happens: p places d in a column where p holds d already and the
\* opponent holds d and another die.
C26_Witness ==
  /\ C26_Placed
  /\ LET p == result.from.node_type.player
         d == result.from.node_type.die
         col == result.arg[2]
     IN /\ \E r \in Rows : r # result.arg[1] /\ At(BoardFor(result.from, p), r, col) = d
        /\ \E r \in Rows : At(BoardFor(result.from, Other(p)), r, col) = d
        /\ \E r \in Rows : At(BoardFor(result.from, Other(p)), r, col) \notin {d, "Empty"}

\* C26 happens for add_move: the parent holds a child that eliminated a die.
C26_WitnessParent ==
  /\ C26_Added
  /\ BoardFor(root.children[Len(root.children)], Other(root.node_type.player))
       # BoardFor(root, Other(root.node_type.player))

\* C26 happens for eliminate: a column that holds dice but not the die asked.
C26_WitnessEliminate ==
  /\ result.op = "eliminate"
  /\ LET board == get_player_board(result.from, result.arg.player)
     IN /\ \A r \in Rows : At(board, r, result.arg.column_index) # result.arg.die
        /\ \E r \in Rows : At(board, r, result.arg.column_index) # "Empty"
        /\ result.board = board

\* build_entire_tree_up_to_symmetry has been called on a fresh root in progress.
C27_Case ==
  /\ result.op = "build_entire_tree_up_to_symmetry"
  /\ result.from.children = <<>>
  /\ ~C4_terminal(result.from)

\* C27: from every root in progress build_entire_tree_up_to_symmetry returns:
\* no line of play comes back to a position it has been in.
C27_Terminates ==
  C27_Case =>
    /\ result.status # "overflow"
    /\ ~Revisits(result.from, {}, MaxTreeDepth)

\* The part of C27 that holds: build_n_moves_up_to_symmetry(n) returns for
\* every n and root, with a tree of at most 2n + 2 levels.
C27_NMovesReturns ==
  result.op = "build_n_moves_up_to_symmetry" =>
    /\ result.status = "ok"
    /\ get_max_depth(root) <= 2 * result.arg + 2

\* A Move root in progress from which the whole-tree build does not return.
C27_MoveRootOverflows ==
  /\ C27_Case
  /\ result.from.node_type.tag = "Move"
  /\ result.status = "overflow"
  /\ get_n_empty_squares(result.from.player_1_board)
       + get_n_empty_squares(result.from.player_2_board) <= 3

\* The Move nodes of the tree under `node` that have a child that is over.
C28_Ending(node) ==
  {x \in Subtree(node) :
     /\ x.node_type.tag = "Move"
     /\ \E i \in 1..Len(x.children) : C4_terminal(x.children[i])}

\* What C28 says of a Move node x that has a child that is over: the child is
\* its only one, and the evaluator returns the one move up to row symmetry
\* with the value of that child, the largest and the smallest candidate.
C28_At(x, f) ==
  LET r == get_next_moves_and_evaluation(x, f)
  IN /\ Len(x.children) = 1
     /\ Len(PrunedMoves(x)) = 1
     /\ LegalMoves(x) = {PrunedMoves(x)[1]}
     /\ r.status = "ok" =>
          /\ r.moves = PrunedMoves(x)
          /\ r.evaluation = objective_function(f, x.children[1]).value
          /\ Candidates(x, f) = {r.evaluation}

\* C28: in a tree built by build_entire_tree_up_to_symmetry or
\* build_n_moves_up_to_symmetry from a fresh root, a Move node with a child
\* that is over has that child only, so the evaluator's return at the first
\* child that is over is the largest and the smallest over all candidates.
\* The trees are those a solve built and evaluated.
C28_EarlyReturn ==
  (result.op = "solve" /\ result.status = "ok") =>
    \A x \in C28_Ending(result.node) : C28_At(x, result.arg.f)

\* C28 happens: the tree of a solve holds, below the root, a Move node whose
\* only child is over, and the root has a child that is over as well.
C28_Witness ==
  /\ result.op = "solve"
  /\ result.status = "ok"
  /\ result.node \in C28_Ending(result.node)
  /\ result.moves = PrunedMoves(result.node)
  /\ result.evaluation # objective_function(result.arg.f, result.node).value

\* C28 happens deeper in the tree: a Move node below the root ends the game.
C28_WitnessBelow ==
  /\ result.op = "solve"
  /\ result.status = "ok"
  /\ \E x \in C28_Ending(result.node) : x # result.node

\* `node` with the two boards and the two players exchanged, in every node
\* of its tree.
RECURSIVE C29_Swapped(_)
C29_Swapped(node) ==
  [node_type |-> [node.node_type EXCEPT !.player = Other(@)],
   player_1_board |-> node.player_2_board,
   player_2_board |-> node.player_1_board,
   children |-> [i \in 1..Len(node.children) |-> C29_Swapped(node.children[i])]]

\* A Move root as constructed has been solved.
C29_Case ==
  /\ result.op = "solve"
  /\ result.from.node_type.tag = "Move"

\* C29: solving the Move root with the boards and the players exchanged ends
\* the same way, with the same best moves and the negated evaluation, in
\* every mode; and difference_heuristic of an exchanged node is the negation
\* of that of the node, for every node of the tree and every fill.
C29_PlayerSymmetry ==
  C29_Case =>
    LET swapped == get_best_moves_and_evaluation(C29_Swapped(result.from), result.arg)
    IN /\ swapped.status = result.status
       /\ swapped.moves = result.moves
       /\ result.status = "ok" =>
            /\ swapped.evaluation = RatNeg(result.evaluation)
            /\ swapped.root = C29_Swapped(result.node)
       /\ \A x \in Subtree(result.node), k \in Fills :
            difference_heuristic(C29_Swapped(x), k) = RatNeg(difference_heuristic(x, k))

\* C29 happens in BruteForce mode: a root with two moves, one of them best,
\* and an evaluation that is not zero.
C29_Witness ==
  /\ C29_Case
  /\ result.status = "ok"
  /\ result.arg.kind = "BruteForce"
  /\ Len(result.node.children) >= 2
  /\ Len(result.moves) = 1
  /\ result.evaluation # RatInt(0)

\* C29 happens in Heuristic mode with a tree below the root and a value
\* that is not zero.
C29_WitnessHeuristic ==
  /\ C29_Case
  /\ result.status = "ok"
  /\ result.arg.kind = "Heuristic"
  /\ get_max_depth(result.node) >= 3
  /\ result.moves # <<>>
  /\ result.evaluation # RatInt(0)
  /\ \E x \in Subtree(result.node) :
       ~C4_terminal(x)
         /\ get_n_empty_squares(x.player_1_board) = get_n_empty_squares(x.player_2_board)

\* The best of the values S for `player`: the largest for Player1, the
\* smallest for Player2.
C30_Best(player, S) ==
  CHOOSE v \in S :
    \A w \in S : IF player = "Player1" THEN RatLeq(w, v) ELSE RatLeq(v, w)

\* The expectiminimax value of the Move node x over the game tree with every
\* legal move, n placements deep, and the value of its move m there: the
\* objective of a node that is over or out of budget; else the best, for the
\* mover, of the values of the legal moves, each the objective of the
\* position reached when it is over and else the mean over the six rolls.
RECURSIVE C30_FullValue(_, _, _)
RECURSIVE C30_FullCandidate(_, _, _, _)
C30_FullValue(x, f, n) ==
  IF C4_terminal(x) \/ n = 0 THEN objective_function(f, x).value
  ELSE C30_Best(x.node_type.player,
                {C30_FullCandidate(x, m, f, n) : m \in LegalMoves(x)})

C30_FullCandidate(x, m, f, n) ==
  LET reached == Node_with_move_made(x, m).node
      values == [k \in 1..6 |-> C30_FullValue(C2_Child(reached, k), f, n - 1)]
  IN IF C4_terminal(reached) THEN objective_function(f, reached).value
     ELSE RatDivInt(RatAdd(RatAdd(RatAdd(values[1], values[2]),
                                  RatAdd(values[3], values[4])),
                           RatAdd(values[5], values[6])), 6)

\* A solve of `node` in the mode `solver_mode` is by brute force: in the
\* mode BruteForce, and in a Hybrid mode when the empty cells of the root
\* are at most max_brute.
C30_BruteForce(node, solver_mode) ==
  \/ solver_mode.kind = "BruteForce"
  \/ solver_mode.kind = "Hybrid" /\ EmptyCells(node) <= solver_mode.max_brute

\* The placements the tree of the solve is deep: without limit for brute
\* force, and else the depth of the mode.
C30_Budget(node, solver_mode) ==
  IF C30_BruteForce(node, solver_mode) THEN MaxTreeDepth ELSE solver_mode.depth

\* The objective of the solve: the outcome for brute force, and else the
\* objective of the mode.
C30_Objective(node, solver_mode) ==
  IF C30_BruteForce(node, solver_mode) THEN ObjOutcome ELSE solver_mode.f

\* A Move root as constructed has been solved and a value returned.
C30_Case ==
  /\ result.op = "solve"
  /\ result.status = "ok"
  /\ result.from.node_type.tag = "Move"

\* C30: the value the solve returns, computed over the tree with the moves
\* up to row symmetry only, is the value over the tree with every legal
\* move, for the outcome objective and for difference_heuristic; every legal
\* move of the root has there the value of the move up to row symmetry of its
\* column, which is the value of that move in the tree of the solve.
C30_PruningLosesNothing ==
  C30_Case =>
    LET x == result.from
        f == C30_Objective(x, result.arg)
        n == C30_Budget(x, result.arg)
    IN /\ result.evaluation = C30_FullValue(x, f, n)
       /\ (~C4_terminal(x) /\ n > 0) =>
            /\ \A m \in LegalMoves(x) :
                 \E i \in 1..Len(PrunedMoves(x)) :
                   /\ PrunedMoves(x)[i][2] = m[2]
                   /\ C30_FullCandidate(x, m, f, n)
                        = C30_FullCandidate(x, PrunedMoves(x)[i], f, n)
            /\ Len(result.node.children) = Len(PrunedMoves(x))
            /\ \A i \in 1..Len(PrunedMoves(x)) :
                 C30_FullCandidate(x, PrunedMoves(x)[i], f, n)
                   = Candidate(result.node, i, f)

\* C30 happens: a root with more legal moves than moves up to row symmetry,
\* in two columns of different value, solved by brute force.
C30_Witness ==
  /\ C30_Case
  /\ result.arg.kind = "BruteForce"
  /\ Cardinality(LegalMoves(result.from)) > Len(PrunedMoves(result.from))
  /\ Len(result.node.children) >= 2
  /\ Cardinality(Candidates(result.node, result.arg.f)) >= 2

\* C30 happens with difference_heuristic: the empty boards, nine legal moves
\* for three up to row symmetry.
C30_WitnessHeuristic ==
  /\ C30_Case
  /\ result.arg.kind = "Heuristic"
  /\ result.arg.depth >= 1
  /\ Cardinality(LegalMoves(result.from)) = 9
  /\ Len(result.node.children) = 3
=============================================================================
